---- MODULE Spec2Model ----
(***************************************************************************)
(* Model of the scoring and aggregation engine of zenbu-jibun:             *)
(*   classify_rules.py  feature extraction and the 13 axis scores          *)
(*   privacy.py         noise filter and masking applied before scoring    *)
(*   db.py              the messages and labels tables                     *)
(*   app.py             process_files (import) and the analysis tabs       *)
(*   aggregate.py       distributions, diffs, top-3 and the export summary *)
(*                                                                         *)
(* Text is a sequence of Unicode code points.  A score is an exact         *)
(* rational [num, den]; a value of a distribution or of a diff is an       *)
(* integer in units of 1/100000, so that rounding to 4 decimals is visible.*)
(***************************************************************************)
EXTENDS Integers, Sequences, FiniteSets, TLC

(***************************************************************************)
(* Bounds of the model                                                     *)
(***************************************************************************)
MaxBatch == 2     \* messages in one imported file
MaxId == 2        \* highest AUTOINCREMENT id handed out
MaxList == 3      \* length of a message list scored directly

(***************************************************************************)
(* classify_rules.py: the 13 axes                                          *)
(***************************************************************************)
COMM_STYLE_LABELS ==
  << "Lead_Directiveness", "Collaboration", "Active_Listening", "Logical_Expression",
     "Emotional_Expression", "Empathy_Care", "Brevity" >>

THINK_STYLE_LABELS ==
  << "Structural_Thinking", "Abstractness", "Multi_Perspective", "Self_Reflection",
     "Future_Oriented", "Risk_Awareness" >>

Range(s) == {s[i] : i \in 1..Len(s)}

CommLabels == Range(COMM_STYLE_LABELS)
ThinkLabels == Range(THINK_STYLE_LABELS)
AxisLabels == CommLabels \cup ThinkLabels

\* variant of max that always takes its second argument
Max2_second(a, b) == b
\* max(a, b) and min(a, b)
Max2(a, b) == IF a >= b THEN a ELSE b
\* variant that returns its first argument
Min2_first(a, b) == a
Min2(a, b) == IF a <= b THEN a ELSE b
Abs(x) == IF x < 0 THEN 0 - x ELSE x

(***************************************************************************)
(* Strings as code point sequences                                         *)
(***************************************************************************)
\* w occurs in t starting at position i
IsSubAt(w, t, i) ==
  /\ i >= 1
  /\ i + Len(w) - 1 <= Len(t)
  /\ \A k \in 1..Len(w) : t[i + k - 1] = w[k]

\* Python: w in t
Contains(w, t) == \E i \in 1..(Len(t) - Len(w) + 1) : IsSubAt(w, t, i)

\* Python: t.count(w), occurrences counted left to right without overlap
\* the first position from i on at which w occurs in t, 0 if there is none
FirstAt(w, t, i) ==
  LET found == {j \in i..(Len(t) - Len(w) + 1) : IsSubAt(w, t, j)}
  IN  IF found = {} THEN 0 ELSE CHOOSE j \in found : \A k \in found : j <= k

RECURSIVE CountFrom(_, _, _), CountAfter(_, _, _)
CountAfter(w, t, j) == IF j = 0 THEN 0 ELSE 1 + CountFrom(w, t, j + Len(w))

CountFrom(w, t, i) == CountAfter(w, t, FirstAt(w, t, i))

StrCount(t, w) == CountFrom(w, t, 1)

\* Python: str.lower(), for the cased letters of the model's alphabet
\* (ASCII A-Z and fullwidth A-Z; kana, kanji and symbols have no case)
LowerChar(c) ==
  IF (c >= 65 /\ c <= 90) \/ (c >= 65313 /\ c <= 65338) THEN c + 32 ELSE c

Lower(t) == [i \in 1..Len(t) |-> LowerChar(t[i])]

\* number of maximal runs of characters satisfying P: len(re.findall("[..]+", t))
CountRuns(t, P(_)) ==
  Cardinality({i \in 1..Len(t) : P(t[i]) /\ (i = 1 \/ ~P(t[i - 1]))})

\* variant that counts every occurrence of every entry
CountPresent_freq(words, t) ==
  Cardinality({p \in (1..Len(words)) \X (1..Len(t)) : IsSubAt(words[p[1]], t, p[2])})
\* number of list entries that occur in t: sum(1 for w in words if w in t)
CountPresent(words, t) == Cardinality({k \in 1..Len(words) : Contains(words[k], t)})

RECURSIVE SumSeq(_)
SumSeq(s) == IF s = <<>> THEN 0 ELSE Head(s) + SumSeq(Tail(s))

(***************************************************************************)
(* classify_rules.py: marker dictionary (keywords as code points, in the   *)
(* order of the source)                                                    *)
(***************************************************************************)
MARKERS ==
  [ directive |-> <<
        <<12375, 12390>>, <<12375, 12390, 12367, 12384, 12373, 12356>>, <<12375, 12424, 12358>>,
        <<12420, 12426, 12414, 12375, 12423, 12358>>, <<34892, 12365, 12414, 12377>>,
        <<12420, 12387, 12390>> >>,
    assertive |-> <<
        <<27770, 12417, 12427>>, <<27770, 23450>>, <<30906, 23450>>, <<12316, 12384>>,
        <<12316, 12391, 12354, 12427>> >>,
    proposal |-> <<
        <<32080, 35542>>, <<26041, 37341>>, <<27425, 12399>>, <<12414, 12378>>,
        <<26041, 37341, 12399>> >>,
    collaborative |-> <<
        <<19968, 32210, 12395>>, <<21512, 12431, 12379, 12390>>,
        <<12377, 12426, 21512, 12431, 12379>>, <<21512, 24847>>,
        <<35469, 35672, 21512, 12431, 12379>>, <<21332, 21147>> >>,
    options |-> <<
        <<12418, 12354, 12426>>, <<36984, 25246, 32930>>, <<12393, 12385, 12425, 12363>>, <<26696>> >>,
    seek_opinion |-> <<
        <<12393, 12358, 24605, 12358>>, <<24847, 35211>>, <<32771, 12360>>,
        <<12393, 12358, 12391, 12375, 12423, 12358>>, <<12393, 12358, 12363, 12394>> >>,
    question_deep |-> <<
        <<12394, 12380>>, <<12393, 12358, 12420, 12387, 12390>>,
        <<20855, 20307, 30340, 12395, 12399>>, <<32972, 26223, 12399>>, <<21069, 25552, 12399>>,
        <<29702, 30001, 12399>> >>,
    question_clarify |-> <<
        <<25945, 12360, 12390>>, <<35443, 12375, 12367>>, <<12418, 12358, 23569, 12375>>,
        <<24847, 22259, 12399>>, <<30906, 35469>>, <<32862, 12365, 12383, 12356>> >>,
    question_emotion |-> <<
        <<22256, 12387, 12390, 12427>>, <<22823, 22793>>, <<12393, 12358, 24863, 12376>>,
        <<27671, 25345, 12385>> >>,
    structure |-> <<
        <<12414, 12378>>, <<27425, 12395>>, <<12388, 12414, 12426>>, <<32080, 35542>>,
        <<26681, 25312>>, <<21069, 25552>>, <<25972, 29702>> >>,
    causal |-> <<
        <<12394, 12398, 12391>>, <<12375, 12383, 12364, 12387, 12390>>,
        <<12394, 12380, 12394, 12425>>, <<12384, 12363, 12425>>, <<25925, 12395>>, <<12383, 12417>> >>,
    analytical |-> <<
        <<35201, 28857>>, <<22240, 26524>>, <<20206, 35500>>, <<26908, 35388>>, <<20998, 26512>>,
        <<35542, 29702>> >>,
    emotion_positive |-> <<
        <<23305, 12375, 12356>>, <<27005, 12375, 12356>>, <<22909, 12365>>,
        <<12527, 12463, 12527, 12463>>, <<26368, 39640>>, <<24184, 12379>>,
        <<12424, 12363, 12387, 12383>> >>,
    emotion_negative |-> <<
        <<19981, 23433>>, <<12388, 12425, 12356>>, <<24754, 12375, 12356>>,
        <<12512, 12459, 12388, 12367>>, <<28966, 12427>>, <<12514, 12516, 12514, 12516>>,
        <<22256, 12427>> >>,
    emotion_neutral |-> <<
        <<24863, 12376, 12427>>, <<24605, 12358>>, <<27671, 25345, 12385>> >>,
    subjective |-> <<
        <<20491, 20154, 30340, 12395>>, <<31169, 12399>>, <<27491, 30452>>,
        <<33258, 20998, 30340, 12395>> >>,
    empathy |-> <<
        <<12431, 12363, 12427>>, <<12394, 12427, 12411, 12393>>, <<12383, 12375, 12363, 12395>>,
        <<12381, 12428, 12394>>, <<21516, 24847>>, <<12358, 12435, 12358, 12435>> >>,
    care |-> <<
        <<12362, 27671, 25345, 12385>>, <<22823, 22793>>, <<28961, 29702, 12394, 12356>>,
        <<21161, 12363, 12427>>, <<27671, 12434, 12388, 12369, 12390>>,
        <<28961, 29702, 12375, 12394, 12356, 12391>> >>,
    thanks |-> <<
        <<12354, 12426, 12364, 12392, 12358>>, <<12354, 12426, 12364, 12392>>, <<24863, 35613>>,
        <<12469, 12531, 12461, 12517, 12540>>, <<12354, 12426, 12391, 12377>> >>,
    apology |-> <<
        <<12377, 12415, 12414, 12379, 12435>>, <<12372, 12417, 12435>>, <<30003, 12375, 35379>>,
        <<22833, 31036>>, <<12377, 12414, 12435>> >>,
    cushion |-> <<
        <<12418, 12375, 12424, 12369, 12428, 12400>>,
        <<24046, 12375, 25903, 12360, 12394, 12369, 12428, 12400>>, <<24656, 32302>>,
        <<12362, 25163, 25968>>, <<12391, 12365, 12428, 12400>> >>,
    digression |-> <<
        <<12385, 12394, 12415, 12395>>, <<20313, 35527>>,
        <<35441, 12399, 12381, 12428, 12414, 12377>> >>,
    connector |-> <<
        <<12354, 12392>>, <<12381, 12428, 12392>>, <<12388, 12356, 12391, 12395>> >>,
    classification |-> <<
        <<20998, 39006>>, <<35201, 32032>>, <<35251, 28857>>, <<36600>>,
        <<12459, 12486, 12468, 12522>>, <<31278, 39006>>, <<12497, 12479, 12540, 12531>>,
        <<12479, 12452, 12503>>, <<12464, 12523, 12540, 12503>>, <<20998, 12369, 12427, 12392>>,
        <<50, 12388>>, <<51, 12388>> >>,
    framework |-> <<
        <<75, 80, 73>>, <<75, 71, 73>>, <<12501, 12524, 12540, 12512>>,
        <<12509, 12452, 12531, 12488>>, <<20307, 31995>>, <<25972, 29702, 12377, 12427, 12392>>,
        <<12414, 12392, 12417, 12427, 12392>>, <<20998, 12369, 12390>>,
        <<12473, 12486, 12483, 12503>> >>,
    hierarchy |-> <<
        <<22823, 26528>>, <<35443, 32048>>, <<19978, 20301>>, <<19979, 20301>>,
        <<20013, 12391, 12418>>, <<38542, 23652>>, <<20840, 20307>>, <<37096, 20998>>,
        <<12513, 12452, 12531>>, <<12469, 12502>> >>,
    perspective |-> <<
        <<19968, 26041, 12391>>, <<21029, 12398, 35251, 28857>>, <<36870, 12395>>, <<20182, 26041>>,
        <<35222, 28857>>, <<35211, 26041>>, <<21029, 12398>>, <<12418, 12358, 19968, 12388>>,
        <<20182, 12398>>, <<21453, 23550>> >>,
    multiple_options |-> <<
        <<12513, 12522, 12487, 12513>>, <<12513, 12522, 12483, 12488>>,
        <<12487, 12513, 12522, 12483, 12488>>, <<12488, 12524, 12540, 12489, 12458, 12501>>,
        <<20001, 38754>>, <<33391, 12356, 28857>>, <<24746, 12356, 28857>>, <<21033, 28857>>,
        <<27424, 28857>>, <<20001, 26041>> >>,
    anticipate |-> <<
        <<12392, 12356, 12358, 35211, 26041>>, <<12383, 12384, 12375>>, <<21453, 35542>>,
        <<25080, 24565>>, <<32771, 24942>>, <<12391, 12418>>, <<12375, 12363, 12375>>,
        <<12392, 12399, 12356, 12360>>, <<12383, 12384>> >>,
    self_reference |-> <<
        <<31169, 12399>>, <<33258, 20998, 12399>>, <<33258, 20998, 12392, 12375, 12390, 12399>>,
        <<20491, 20154, 30340>>, <<20693, 12399>>, <<20474, 12399>> >>,
    mental_process |-> <<
        <<27671, 12389, 12356, 12383>>, <<24863, 12376, 12383>>, <<36855, 12358>>,
        <<22823, 20107, 12395, 12375, 12383, 12356>>, <<24605, 12387, 12383>>,
        <<32771, 12360, 12383>>, <<24745, 12416>>, <<36855, 12387, 12390, 12427>>,
        <<12431, 12363, 12425, 12394, 12356>> >>,
    self_improvement |-> <<
        <<33510, 25163>>, <<35506, 38988>>, <<25913, 21892, 12375, 12383, 12356>>,
        <<20280, 12400, 12375, 12383, 12356>>, <<25391, 12426, 36820, 12427>>, <<21453, 30465>>,
        <<30452, 12375, 12383, 12356>>, <<22793, 12360, 12383, 12356>>, <<25104, 38263>>,
        <<23398, 12403>> >>,
    future_time |-> <<
        <<20170, 24460>>, <<23558, 26469>>, <<12371, 12428, 12363, 12425>>, <<27425, 12395>>,
        <<20013, 38263, 26399>>, <<20808>>, <<26126, 26085>>, <<26469, 36913>>, <<26469, 26376>>,
        <<26469, 24180>>, <<24460, 12391>>, <<12356, 12388, 12363>> >>,
    planning |-> <<
        <<30446, 25351, 12377>>, <<12525, 12540, 12489, 12510, 12483, 12503>>,
        <<12473, 12465, 12472, 12517, 12540, 12523>>, <<12503, 12521, 12531>>,
        <<12468, 12540, 12523>>, <<35336, 30011>>, <<20104, 23450>>, <<28310, 20633>>,
        <<27573, 21462, 12426>>, <<12420, 12427, 12371, 12392>> >>,
    possibility |-> <<
        <<12391, 12365, 12381, 12358>>, <<12394, 12426, 12358, 12427>>, <<21487, 33021, 24615>>,
        <<24819, 23450>>, <<35211, 36796, 12415>>, <<12363, 12418>>, <<12391, 12365, 12427>>,
        <<12394, 12427, 12363, 12418>>, <<12356, 12369, 12381, 12358>> >>,
    risk |-> <<
        <<12522, 12473, 12463>>, <<25080, 24565>>, <<21839, 38988>>, <<28814, 19978>>,
        <<25209, 21028>>, <<21103, 20316, 29992>>, <<21361, 38522>>, <<24515, 37197>>,
        <<19981, 23433>>, <<24598, 12356>>, <<12414, 12378, 12356>>, <<12516, 12496, 12356>> >>,
    conditional |-> <<
        <<12383, 12384, 12375>>, <<22580, 21512, 12395, 12424, 12387, 12390>>,
        <<20381, 23384, 12377, 12427>>, <<26465, 20214>>, <<12418, 12375>>, <<27425, 31532>>,
        <<12395, 12424, 12387, 12390>>, <<12394, 12425>>, <<12384, 12387, 12383, 12425>> >>,
    failure |-> <<
        <<26368, 24746>>, <<35440, 12416>>, <<30772, 32187>>, <<28431, 27945>>, <<22833, 25943>>,
        <<12480, 12513>>, <<28961, 29702>>, <<12391, 12365, 12394, 12356>>, <<21427, 12375, 12356>>,
        <<38291, 12395, 21512, 12431, 12394, 12356>> >> ]

MarkerCategories ==
  << "directive", "assertive", "proposal", "collaborative", "options", "seek_opinion",
     "question_deep", "question_clarify", "question_emotion", "structure", "causal",
     "analytical", "emotion_positive", "emotion_negative", "emotion_neutral", "subjective",
     "empathy", "care", "thanks", "apology", "cushion", "digression", "connector",
     "classification", "framework", "hierarchy", "perspective", "multiple_options", "anticipate",
     "self_reference", "mental_process", "self_improvement", "future_time", "planning",
     "possibility", "risk", "conditional", "failure" >>

MarkerKey ==
  [ directive |-> "marker_directive",
    assertive |-> "marker_assertive",
    proposal |-> "marker_proposal",
    collaborative |-> "marker_collaborative",
    options |-> "marker_options",
    seek_opinion |-> "marker_seek_opinion",
    question_deep |-> "marker_question_deep",
    question_clarify |-> "marker_question_clarify",
    question_emotion |-> "marker_question_emotion",
    structure |-> "marker_structure",
    causal |-> "marker_causal",
    analytical |-> "marker_analytical",
    emotion_positive |-> "marker_emotion_positive",
    emotion_negative |-> "marker_emotion_negative",
    emotion_neutral |-> "marker_emotion_neutral",
    subjective |-> "marker_subjective",
    empathy |-> "marker_empathy",
    care |-> "marker_care",
    thanks |-> "marker_thanks",
    apology |-> "marker_apology",
    cushion |-> "marker_cushion",
    digression |-> "marker_digression",
    connector |-> "marker_connector",
    classification |-> "marker_classification",
    framework |-> "marker_framework",
    hierarchy |-> "marker_hierarchy",
    perspective |-> "marker_perspective",
    multiple_options |-> "marker_multiple_options",
    anticipate |-> "marker_anticipate",
    self_reference |-> "marker_self_reference",
    mental_process |-> "marker_mental_process",
    self_improvement |-> "marker_self_improvement",
    future_time |-> "marker_future_time",
    planning |-> "marker_planning",
    possibility |-> "marker_possibility",
    risk |-> "marker_risk",
    conditional |-> "marker_conditional",
    failure |-> "marker_failure" ]

list_markers ==
  << <<49, 46>>, <<50, 46>>, <<51, 46>>, <<9312>>, <<9313>>, <<9314>>, <<45, 32>>, <<12539>> >>

polite_patterns ==
  << <<12391, 12377>>, <<12414, 12377>>, <<12367, 12384, 12373, 12356>>,
     <<12356, 12383, 12375, 12414, 12377>> >>

(***************************************************************************)
(* classify_rules.py: feature extraction                                   *)
(***************************************************************************)
\* character class of emoji_pattern: U+1F600-1F64F, U+1F300-1F5FF,
\* U+1F680-1F6FF, U+1F1E0-1F1FF
IsEmojiChar(c) ==
  \/ c >= 128512 /\ c <= 128591
  \/ c >= 127744 /\ c <= 128511
  \/ c >= 128640 /\ c <= 128767
  \/ c >= 127462 /\ c <= 127487

count_emoji(text) == CountRuns(text, IsEmojiChar)

\* \d of the re module, for the digits of the model's alphabet
\* (ASCII 0-9 and fullwidth 0-9)
IsDigit(c) == (c >= 48 /\ c <= 57) \/ (c >= 65296 /\ c <= 65305)

BaseFeatureKeys ==
  { "char_count", "sentence_count", "question_mark", "exclaim", "emoji_count",
    "laugh", "list_marker", "polite_count", "number_count" }

MarkerFeatureKeys == {MarkerKey[c] : c \in Range(MarkerCategories)}

FeatureKeys == BaseFeatureKeys \cup MarkerFeatureKeys

CategoryOfKey(k) == CHOOSE c \in Range(MarkerCategories) : MarkerKey[c] = k

extract_features(text) ==
  LET text_lower == Lower(text)
      base ==
        [ char_count |-> Len(text),
          \* "。" U+3002, "." and "\n"
          sentence_count |->
            Max2(1, StrCount(text, <<12290>>) + StrCount(text, <<46>>)
                      + StrCount(text, <<10>>)),
          \* "?" and fullwidth "？" U+FF1F
          question_mark |-> StrCount(text, <<63>>) + StrCount(text, <<65311>>),
          \* "!" and fullwidth "！" U+FF01
          exclaim |-> Min2(StrCount(text, <<33>>) + StrCount(text, <<65281>>), 3),
          emoji_count |-> Min2(count_emoji(text), 3),
          \* "笑" U+7B11 and "w"
          laugh |-> Min2(StrCount(Lower(text), <<31505>>)
                           + StrCount(Lower(text), <<119>>), 3),
          list_marker |-> CountPresent(list_markers, text),
          polite_count |->
            SumSeq([k \in 1..Len(polite_patterns) |-> StrCount(text, polite_patterns[k])]),
          number_count |-> CountRuns(text, IsDigit) ]
  IN  [ k \in FeatureKeys |->
          IF k \in BaseFeatureKeys THEN base[k]
          ELSE CountPresent(MARKERS[CategoryOfKey(k)], text_lower) ]


(***************************************************************************)
(* privacy.py: noise filter and masking                                    *)
(***************************************************************************)
SystemMsgWords ==
  << <<12473, 12479, 12531, 12503>>, <<20889, 30495>>, <<21205, 30011>>,
     <<12501, 12449, 12452, 12523>>,
     <<12508, 12452, 12473, 12513, 12483, 12475, 12540, 12472>>, <<71, 73, 70>>,
     <<36899, 32097, 20808>>, <<12494, 12540, 12488>>, <<12450, 12523, 12496, 12512>>,
     <<30011, 20687>>, <<38899, 22768>>, <<20301, 32622, 24773, 22577>>, <<36890, 35441>>,
     <<19981, 22312, 30528, 20449>>, <<30528, 20449, 25298, 21542>>,
     <<12467, 12524, 12463, 12471, 12519, 12531>> >>
MaskUrl == <<91, 85, 82, 76, 93>>
MaskEmail == <<91, 69, 77, 65, 73, 76, 93>>
MaskTel == <<91, 84, 69, 76, 93>>
HttpScheme == <<104, 116, 116, 112>>
SchemeSep == <<58, 47, 47>>
Plus81 == <<43, 56, 49>>

SetMin(S) == CHOOSE x \in S : \A y \in S : x <= y
SetMax(S) == CHOOSE x \in S : \A y \in S : x >= y

\* str.isspace() and \s of the re module
IsSpace(c) ==
  \/ c >= 9 /\ c <= 13
  \/ c >= 28 /\ c <= 32
  \/ c \in {133, 160, 5760, 8232, 8233, 8239, 8287, 12288}
  \/ c >= 8192 /\ c <= 8202

\* unicodedata.category(c).startswith("Z")
IsSeparator(c) ==
  \/ c \in {32, 160, 5760, 8232, 8233, 8239, 8287, 12288}
  \/ c >= 8192 /\ c <= 8202

\* str.strip()
Strip(t) ==
  LET keep == {i \in 1..Len(t) : ~IsSpace(t[i])}
  IN  IF keep = {} THEN <<>> ELSE SubSeq(t, SetMin(keep), SetMax(keep))

\* first position q >= p whose character does not satisfy P (Len(t) + 1 if none)
RunEnd(t, p, P(_)) == SetMin({q \in p..(Len(t) + 1) : q = Len(t) + 1 \/ ~P(t[q])})

\* [U+10000-U+10FFFF U+2600-U+26FF U+2700-U+27BF]
IsSymbolChar(c) == (c >= 65536 /\ c <= 1114111) \/ (c >= 9728 /\ c <= 10175)

\* character class of RE_EMOJI_ONLY
IsEmojiOnlyChar(c) ==
  \/ IsSpace(c)
  \/ IsSymbolChar(c)
  \/ c \in { 169, 174, 8252, 8265, 8419, 8482, 8505, 8617, 8618, 8986, 8987, 9410,
             9642, 9643, 9654, 9664, 10548, 10549, 11013, 11014, 11015, 11035, 11036,
             11088, 11093, 12336, 12349, 12951, 12953 }
  \/ c >= 8596 /\ c <= 8601
  \/ c >= 9193 /\ c <= 9203
  \/ c >= 9208 /\ c <= 9210
  \/ c >= 9723 /\ c <= 9726

\* RE_SYSTEM_MSG.search(s) for a stripped, non-empty s
SystemMsgMatch(s) ==
  \/ \E k \in 1..Len(SystemMsgWords) :
       \/ s[1] = 91 /\ IsSubAt(SystemMsgWords[k], s, 2)
       \/ IsSubAt(SystemMsgWords[k], s, 1)
  \/ \A i \in 1..Len(s) : IsSymbolChar(s[i])
  \/ /\ Len(s) >= 2
     /\ s[1] = 40
     /\ s[Len(s)] = 41
     /\ \A i \in 2..(Len(s) - 1) : s[i] # 10

\* RE_EMOJI_ONLY.match(s) for a stripped, non-empty s
EmojiOnlyMatch(s) == \A i \in 1..Len(s) : IsEmojiOnlyChar(s[i])

is_noise(text, min_chars) ==
  LET stripped == Strip(text)
      char_count == Cardinality({i \in 1..Len(stripped) : ~IsSeparator(stripped[i])})
  IN  \/ stripped = <<>>
      \/ char_count < min_chars
      \/ SystemMsgMatch(stripped)
      \/ EmojiOnlyMatch(stripped)

\* characters that end the body of RE_URL
IsUrlBodyChar(c) ==
  /\ ~IsSpace(c)
  /\ c \notin {12288, 12298, 12299, 12289, 12290, 12300, 12301, 12304, 12305,
               65288, 65289, 91, 93, 40, 41}

IsAsciiLetter(c) == (c >= 65 /\ c <= 90) \/ (c >= 97 /\ c <= 122)
IsAsciiDigit(c) == c >= 48 /\ c <= 57
\* [a-zA-Z0-9._%+\-]
IsEmailLocalChar(c) == IsAsciiLetter(c) \/ IsAsciiDigit(c) \/ c \in {46, 95, 37, 43, 45}
\* [a-zA-Z0-9.\-]
IsEmailDomainChar(c) == IsAsciiLetter(c) \/ IsAsciiDigit(c) \/ c \in {46, 45}
\* [\s\-]
IsPhoneSep(c) == IsSpace(c) \/ c = 45

\* RE_URL at position i: position after the match, 0 if none
UrlEnd(t, i) ==
  IF ~IsSubAt(HttpScheme, Lower(t), i) THEN 0
  ELSE IF i + 4 <= Len(t) /\ LowerChar(t[i + 4]) = 115 /\ IsSubAt(SchemeSep, t, i + 5)
       THEN RunEnd(t, i + 8, IsUrlBodyChar)
  ELSE IF IsSubAt(SchemeSep, t, i + 4) THEN RunEnd(t, i + 7, IsUrlBodyChar)
  ELSE 0

\* RE_EMAIL at position i: position after the match, 0 if none
EmailEnd(t, i) ==
  IF ~IsEmailLocalChar(t[i]) THEN 0
  ELSE
    LET at == RunEnd(t, i, IsEmailLocalChar)
    IN  IF at > Len(t) \/ t[at] # 64 THEN 0
        ELSE
          LET stop == RunEnd(t, at + 1, IsEmailDomainChar)
              dots == {d \in (at + 2)..(stop - 3) :
                         t[d] = 46 /\ IsAsciiLetter(t[d + 1]) /\ IsAsciiLetter(t[d + 2])}
          IN  IF dots = {} THEN 0 ELSE RunEnd(t, SetMax(dots) + 1, IsAsciiLetter)

\* One step of RE_PHONE_JP from position p: the positions the step can reach,
\* in the order the backtracking matcher tries them (greedy first).
PhoneStep(kind, t, p) ==
  LET digitsAt(n) == p + n - 1 <= Len(t) /\ \A k \in p..(p + n - 1) : IsDigit(t[k])
      keep(n) == IF digitsAt(n) THEN <<p + n>> ELSE <<>>
  IN  CASE kind = "prefix" ->
             (IF IsSubAt(Plus81, t, p)
              THEN (IF p + 3 <= Len(t) /\ IsPhoneSep(t[p + 3]) THEN <<p + 4>> ELSE <<>>)
                     \o <<p + 3>>
              ELSE <<>>) \o <<p>>
        [] kind = "zero" -> IF p <= Len(t) /\ t[p] = 48 THEN <<p + 1>> ELSE <<>>
        [] kind = "digits1to4" -> keep(4) \o keep(3) \o keep(2) \o keep(1)
        [] kind = "sep" ->
             (IF p <= Len(t) /\ IsPhoneSep(t[p]) THEN <<p + 1>> ELSE <<>>) \o <<p>>
        [] kind = "digits4" -> keep(4)

\* the first of the positions ps, 0 if there is none
FirstOr0(ps) == IF ps = <<>> THEN 0 ELSE Head(ps)

RECURSIVE PhoneSteps(_, _, _)
PhoneSteps(kind, t, ps) ==
  IF ps = <<>> THEN <<>>
  ELSE PhoneStep(kind, t, Head(ps)) \o PhoneSteps(kind, t, Tail(ps))

\* the steps of RE_PHONE_JP: (?:\+81[-\s]?)?0\d{1,4}[-\s]?\d{1,4}[-\s]?\d{4}
PhonePattern == <<"prefix", "zero", "digits1to4", "sep", "digits1to4", "sep", "digits4">>

\* the positions reached after the steps kinds, in the matcher's order
RECURSIVE PhoneRun(_, _, _)
PhoneRun(kinds, t, ps) ==
  IF kinds = <<>> THEN ps
  ELSE PhoneRun(Tail(kinds), t, PhoneSteps(Head(kinds), t, ps))

\* RE_PHONE_JP at position i: position after the match, 0 if none
PhoneEnd(t, i) == FirstOr0(PhoneRun(PhonePattern, t, <<i>>))

MatchEnd(kind, t, i) ==
  CASE kind = "url" -> UrlEnd(t, i)
    [] kind = "email" -> EmailEnd(t, i)
    [] kind = "tel" -> PhoneEnd(t, i)

MaskOf(kind) ==
  CASE kind = "url" -> MaskUrl
    [] kind = "email" -> MaskEmail
    [] kind = "tel" -> MaskTel

\* pattern.sub(mask, t): leftmost matches, scanning on after each one;
\* SubStep continues from position i, where the match (if any) ends at e
RECURSIVE SubFrom(_, _, _), SubStep(_, _, _, _)
SubStep(kind, t, i, e) ==
  IF e > i THEN MaskOf(kind) \o SubFrom(kind, t, e)
  ELSE <<t[i]>> \o SubFrom(kind, t, i + 1)

SubFrom(kind, t, i) ==
  IF i > Len(t) THEN <<>>
  ELSE SubStep(kind, t, i, MatchEnd(kind, t, i))

mask_privacy(text) == SubFrom("tel", SubFrom("email", SubFrom("url", text, 1), 1), 1)

\* (processed text, noise flag)
preprocess_text(text, min_chars) ==
  IF is_noise(text, min_chars) THEN <<text, TRUE>>
  ELSE <<mask_privacy(text), FALSE>>
(***************************************************************************)
(* Message texts of the model                                              *)
(***************************************************************************)
\* ryoukai (understood): no marker
TextOk == <<20102, 35299>>
\* mazu kakunin shite? : proposal, structure, directive, clarify, one question mark
TextAsk == <<12414, 12378, 30906, 35469, 12375, 12390, 65311>>
\* naze?? fuan w : deep question, two question marks, negative emotion, risk, laugh
TextWhy == <<12394, 12380, 65311, 65311, 19981, 23433, 119>>
\* 3tsu no an nara 10ji : options, classification, conditional, two digit runs
TextNum == <<51, 12388, 12398, 26696, 12394, 12425, 49, 48, 26178>>
\* arigatou! tasukaru : thanks (two keywords), care, exclaim
TextThanks == <<12354, 12426, 12364, 12392, 12358, 65281, 21161, 12363, 12427>>
\* a single w: one visible character, noise under min_chars = 2
TextLaugh == <<119>>
\* warai (laugh): the other one-character laugh sign
TextLaughAlt == <<31505>>
\* 3tsu no an nara 11ji : TextNum with another hour
TextNumAlt == <<51, 12388, 12398, 26696, 12394, 12425, 49, 49, 26178>>
\* [sutanpu]: LINE system message
TextStamp == <<91, 12473, 12479, 12531, 12503, 93>>
\* a phone number, masked to [TEL]
TextTel == <<84, 69, 76, 32, 48, 57, 48, 45, 49, 50, 51, 52, 45, 53, 54, 55, 56>>
\* a URL followed by mite (look)
TextUrl == <<104, 116, 116, 112, 115, 58, 47, 47, 97, 46, 106, 112, 47, 49, 32, 35211, 12390>>
\* an e-mail address followed by made
TextMail == <<97, 49, 64, 98, 46, 106, 112, 32, 12414, 12391>>
\* the hiragana letter a 150 times: a long message without any marker
TextLong == [i \in 1..150 |-> 12354]
\* four question marks
TextManyQ == <<63, 63, 63, 63>>

SampleTexts ==
  { <<>>, TextOk, TextAsk, TextWhy, TextNum, TextNumAlt, TextThanks, TextLaugh,
    TextLaughAlt, TextStamp, TextTel, TextUrl, TextMail, TextLong, TextManyQ }


(***************************************************************************)
(* classify_rules.py: axis scores                                          *)
(***************************************************************************)
Rat(n, d) == [num |-> n, den |-> d]
RatEq(a, b) == a.num * b.den = b.num * a.den
RatLess(a, b) == a.num * b.den < b.num * a.den

\* variant that reads every message as empty
MsgText_empty(m) == <<>>
\* m.get("text", "")
MsgText(m) == IF "text" \in DOMAIN m THEN m.text ELSE <<>>

\* extract_features, evaluated once for each text of the model
FeatureOfText == [t \in SampleTexts |-> extract_features(t)]
Features(t) == IF t \in SampleTexts THEN FeatureOfText[t] ELSE extract_features(t)

\* variant that keeps the features of the first message only
features_sum_first(messages) ==
  [k \in FeatureKeys |-> Features(MsgText(messages[1]))[k]]
\* features_sum: a defaultdict(float), component-wise sum of the feature vectors
features_sum(messages) ==
  LET feats == [i \in 1..Len(messages) |-> Features(MsgText(messages[i]))]
  IN  [k \in FeatureKeys |-> SumSeq([i \in 1..Len(messages) |-> feats[i][k]])]

\* variant in which a key never written reads as 1
FeatureGet_one(fs, k) == IF k \in DOMAIN fs THEN fs[k] ELSE 1
\* features_sum[key] of a defaultdict: a key never written reads as 0
FeatureGet(fs, k) == IF k \in DOMAIN fs THEN fs[k] ELSE 0

\* Weights are in hundredths, so every score of a non-empty list is
\* num / (100 * total_count).
\* variant of the all-zero result without the thinking axes
zero_scores_comm == [axis \in Range(COMM_STYLE_LABELS) |-> Rat(0, 1)]
\* {axis: 0.0 for axis in COMM_STYLE_LABELS + THINK_STYLE_LABELS}
zero_scores == [axis \in Range(COMM_STYLE_LABELS \o THINK_STYLE_LABELS) |-> Rat(0, 1)]

\* the weighted sums of calculate_axis_scores, from the summed features
axis_scores(fs, total_count, total_chars) ==
  LET F(k) == FeatureGet(fs, k)
      den == 100 * total_count
      directive == 100 * (F("marker_directive") + F("marker_assertive"))
                     + 150 * F("marker_proposal") - 30 * F("question_mark")
      collab == 150 * F("marker_collaborative")
                  + 100 * (F("marker_options") + F("marker_seek_opinion"))
      listening == 120 * F("question_mark") + 200 * F("marker_question_deep")
                     + 150 * F("marker_question_clarify")
                     + 100 * F("marker_question_emotion")
      logical == 150 * F("marker_structure") + 120 * F("marker_causal")
                   + 100 * F("marker_analytical") + 50 * F("list_marker")
      emotional == 100 * F("marker_emotion_positive") + 100 * F("marker_emotion_negative")
                     + 80 * F("marker_emotion_neutral") + 50 * F("marker_subjective")
                     + 20 * (F("exclaim") + F("emoji_count") + F("laugh"))
      empathy == 150 * F("marker_empathy") + 120 * F("marker_care")
                   + 120 * F("marker_thanks") + 100 * F("marker_apology")
                   + 130 * F("marker_cushion") + 5 * F("polite_count")
      \* 1.0 - min(avg_chars / 100, 1.0) - digression / total_count * 0.2
      brevity == 100 * total_count - Min2(total_chars, 100 * total_count)
                   - 20 * F("marker_digression")
      structural == 150 * F("marker_classification") + 130 * F("marker_framework")
                      + 100 * F("marker_hierarchy")
      abstract == 100 * F("marker_abstract")
      concrete == 100 * F("marker_concrete") + 20 * F("number_count")
      abstractness ==
        IF abstract = 0 /\ concrete = 0 THEN 10 * total_count
        ELSE Max2(0, Min2(100 * total_count, (abstract - concrete) + 30 * total_count))
      multi == 150 * F("marker_perspective") + 130 * F("marker_multiple_options")
                 + 100 * F("marker_anticipate")
      reflective == 80 * F("marker_self_reference") + 150 * F("marker_mental_process")
                      + 180 * F("marker_self_improvement")
      future == 120 * F("marker_future_time") + 150 * F("marker_planning")
                  + 100 * F("marker_possibility")
      risk == 150 * F("marker_risk") + 100 * F("marker_conditional")
                + 120 * F("marker_failure") + 50 * F("marker_countermeasure")
  IN  [ Lead_Directiveness |-> Rat(Max2(0, directive), den),
        Collaboration |-> Rat(collab, den),
        Active_Listening |-> Rat(listening, den),
        Logical_Expression |-> Rat(logical, den),
        Emotional_Expression |-> Rat(emotional, den),
        Empathy_Care |-> Rat(empathy, den),
        Brevity |-> Rat(Max2(0, brevity), den),
        Structural_Thinking |-> Rat(structural, den),
        Abstractness |-> Rat(abstractness, den),
        Multi_Perspective |-> Rat(multi, den),
        Self_Reflection |-> Rat(reflective, den),
        Future_Oriented |-> Rat(future, den),
        Risk_Awareness |-> Rat(risk, den) ]

calculate_axis_scores(messages) ==
  IF messages = <<>> THEN zero_scores
  ELSE axis_scores(features_sum(messages), Len(messages),
                   SumSeq([i \in 1..Len(messages) |-> Len(MsgText(messages[i]))]))

\* variant that adds the two factors without halving
calculate_confidence_sum(msg_count, char_count) ==
  LET confidence == 50 * Min2(200, msg_count) + 2 * Min2(5000, char_count)
      low == confidence \div 100
  IN  IF confidence % 100 < 50 THEN {low}
      ELSE IF confidence % 100 > 50 THEN {low + 1}
      ELSE {low, low + 1}
\* calculate_confidence: round((msg_factor + char_factor) / 2, 2), in hundredths.
\* msg_factor = min(1.0, msg_count / 200) and char_factor = min(1.0,
\* char_count / 5000) make confidence a multiple of 1/10000.  round() takes the
\* nearest hundredth of the binary float; where the decimal value lies exactly
\* between two hundredths the float lies a little to one side or the other
\* (0.005 gives 0.01, 0.015 gives 0.01), so both neighbours are outcomes.
calculate_confidence(msg_count, char_count) ==
  LET confidence == 25 * Min2(200, msg_count) + Min2(5000, char_count)
      low == confidence \div 100
  IN  IF confidence % 100 < 50 THEN {low}
      ELSE IF confidence % 100 > 50 THEN {low + 1}
      ELSE {low, low + 1}


(***************************************************************************)
(* Python dicts whose insertion order is observable: keys in insertion     *)
(* order and the mapping itself                                            *)
(***************************************************************************)
EmptyDict == [keys |-> <<>>, at |-> <<>>]
DictKeys(d) == Range(d.keys)
\* d[k] = v : a new key goes last, an existing key keeps its place
DictPut(d, k, v) ==
  [ keys |-> IF k \in Range(d.keys) THEN d.keys ELSE Append(d.keys, k),
    at |-> [x \in Range(d.keys) \cup {k} |-> IF x = k THEN v ELSE d.at[x]] ]
\* d.get(k, default)
DictGet(d, k, default) == IF k \in Range(d.keys) THEN d.at[k] ELSE default

\* f.get(k, default) for a mapping kept as a function
FnGet(f, k, default) == IF k \in DOMAIN f THEN f[k] ELSE default

(***************************************************************************)
(* db.py: messages and labels tables                                       *)
(***************************************************************************)
USER_ID == "u1"
MyName == "Kengo"
Speakers == {"Kengo", "Tanaka"}
FileNames == {"A.txt", "B.txt", "global.txt"}

\* filename.rsplit(".", 1)[0]
Counterparty(filename) ==
  CASE filename = "A.txt" -> "A"
    [] filename = "B.txt" -> "B"
    [] filename = "global.txt" -> "global"

\* SQL NULL / Python None in a label column
None == "<None>"

\* a database is [messages : id -> row, labels : message_id -> label row,
\* next_id : the next AUTOINCREMENT id]
EmptyDb == [messages |-> <<>>, labels |-> <<>>, next_id |-> 1]

Restrict(f, S) == [x \in S |-> f[x]]

\* ids of the rows of (user_id, source)
SourceIds(db, uid, src) ==
  {id \in DOMAIN db.messages :
     db.messages[id].user_id = uid /\ db.messages[id].source = src}

\* rows: a sequence of message rows; returns the database and the new ids
upsert_messages_batch(db, rows) ==
  IF rows = <<>> THEN [db |-> db, ids |-> <<>>]
  ELSE
    LET seen == {<<rows[i].user_id, rows[i].source>> : i \in 1..Len(rows)}
        old_ids == UNION {SourceIds(db, p[1], p[2]) : p \in seen}
        ids == [i \in 1..Len(rows) |-> db.next_id + i - 1]
        kept == DOMAIN db.messages \ old_ids
        new == {ids[i] : i \in 1..Len(rows)}
    IN  [ db |->
            [ messages |->
                [ id \in kept \cup new |->
                    IF id \in new THEN rows[id - db.next_id + 1] ELSE db.messages[id] ],
              labels |-> Restrict(db.labels, DOMAIN db.labels \ old_ids),
              next_id |-> db.next_id + Len(rows) ],
          ids |-> ids ]

\* max(scores, key=scores.get) over the labels in list order: the first
\* label that no other label beats
ArgMaxFirst(order, scores) ==
  LET best == {i \in 1..Len(order) :
                 \A j \in 1..Len(order) : ~RatLess(scores[order[i]], scores[order[j]])}
  IN  order[SetMin(best)]

\* label_rows: a sequence of [message_id, scores]; INSERT OR REPLACE per row
RECURSIVE upsert_labels_batch(_, _)
upsert_labels_batch(db, label_rows) ==
  IF label_rows = <<>> THEN db
  ELSE
    LET row == Head(label_rows)
        msg_id == row.message_id
        comm_scores == [k \in CommLabels |-> FnGet(row.scores, k, Rat(0, 1))]
        think_scores == [k \in ThinkLabels |-> FnGet(row.scores, k, Rat(0, 1))]
        label ==
          [ style_primary |-> ArgMaxFirst(COMM_STYLE_LABELS, comm_scores),
            think_primary |-> ArgMaxFirst(THINK_STYLE_LABELS, think_scores),
            style_scores |-> comm_scores,
            think_scores |-> think_scores ]
        next ==
          IF msg_id = 0 THEN db
          ELSE [db EXCEPT !.labels =
                  [id \in DOMAIN db.labels \cup {msg_id} |->
                     IF id = msg_id THEN label ELSE db.labels[id]]]
    IN  upsert_labels_batch(next, Tail(label_rows))

\* ascending sequence of a finite set of integers
RECURSIVE SortedSeq(_)
SortedSeq(S) == IF S = {} THEN <<>> ELSE <<SetMin(S)>> \o SortedSeq(S \ {SetMin(S)})

\* messages LEFT JOIN labels of one user.  Timestamps are not modelled: rows
\* come in insertion order.
fetch_my_messages_with_labels(db, uid) ==
  LET ids == SortedSeq({id \in DOMAIN db.messages : db.messages[id].user_id = uid})
  IN  [ i \in 1..Len(ids) |->
          LET m == db.messages[ids[i]]
              has == ids[i] \in DOMAIN db.labels
          IN  [ id |-> ids[i], source |-> m.source, counterparty |-> m.counterparty,
                speaker |-> m.speaker, is_me |-> m.is_me, text |-> m.text,
                style_primary |-> IF has THEN db.labels[ids[i]].style_primary ELSE None,
                think_primary |-> IF has THEN db.labels[ids[i]].think_primary ELSE None ] ]

\* variant that leaves the labels to the ON DELETE CASCADE of the schema, which
\* SQLite applies only under PRAGMA foreign_keys = ON
delete_source_cascade(db, uid, src) ==
  [ messages |-> Restrict(db.messages, DOMAIN db.messages \ SourceIds(db, uid, src)),
    labels |-> db.labels,
    next_id |-> db.next_id ]
delete_source(db, uid, src) ==
  LET ids == SourceIds(db, uid, src)
  IN  [ messages |-> Restrict(db.messages, DOMAIN db.messages \ ids),
        labels |-> Restrict(db.labels, DOMAIN db.labels \ ids),
        next_id |-> db.next_id ]

(***************************************************************************)
(* app.py: import of one parsed file                                       *)
(***************************************************************************)
\* texts that reach process_files in the model
ImportTexts == {TextLaugh, TextNum}
\* the slider of tab 1 (1..10, default 2)
MinCharsChoices == {1, 2}

\* per-message scoring of process_files; evaluated once per text
ScoreOfText == [t \in SampleTexts |-> calculate_axis_scores(<<[text |-> t]>>)]
\* scores = calculate_axis_scores([{"text": proc_text}])
ScoreOf(t) ==
  IF t \in SampleTexts THEN ScoreOfText[t] ELSE calculate_axis_scores(<<[text |-> t]>>)
PreprocessOfText ==
  [t \in ImportTexts, mc \in MinCharsChoices |-> preprocess_text(t, mc)]

\* variant that labels the messages of every speaker
IsLabelTarget_any(is_me, noise_flag) == ~noise_flag
\* if is_me and not noise_flag: the message gets a labels row
IsLabelTarget(is_me, noise_flag) == is_me = 1 /\ ~noise_flag

\* the body of the loop of process_files for one uploaded file;
\* parsed: the messages of load_line_file, each [speaker, text]
process_file(db, filename, parsed, my_name, min_chars, user_id) ==
  LET source == filename
      counterparty == Counterparty(filename)
      is_me(i) == IF parsed[i].speaker = my_name THEN 1 ELSE 0
      pre(i) == PreprocessOfText[parsed[i].text, min_chars]
      msg_rows ==
        [ i \in 1..Len(parsed) |->
            [ user_id |-> user_id, source |-> source, counterparty |-> counterparty,
              speaker |-> parsed[i].speaker, is_me |-> is_me(i),
              text |-> parsed[i].text ] ]
      up == upsert_messages_batch(db, msg_rows)
      labelled == {i \in 1..Len(up.ids) : IsLabelTarget(is_me(i), pre(i)[2])}
      order == SortedSeq(labelled)
      label_batch ==
        [ k \in 1..Len(order) |->
            [ message_id |-> up.ids[order[k]],
              scores |-> ScoreOf(pre(order[k])[1]) ] ]
  IN  upsert_labels_batch(up.db, label_batch)

(***************************************************************************)
(* aggregate.py                                                            *)
(***************************************************************************)
\* the integer nearest to n / d (d > 0), a tie going to the even one
RoundHalfEven(n, d) ==
  LET q == n \div d
      r == n % d
  IN  IF 2 * r < d THEN q
      ELSE IF 2 * r > d THEN q + 1
      ELSE IF q % 2 = 0 THEN q ELSE q + 1

\* variant that gives the share in percent
Round4_percent(n, d) == 1000 * RoundHalfEven(n * 10000, d)
\* round(n / d, 4), in units of 1/100000
Round4(n, d) == 10 * RoundHalfEven(n * 10000, d)

\* round(x, 4) of a value x given in units of 1/100000
Round4Of(x) == 10 * RoundHalfEven(x, 10)

\* variant of the empty distribution that lacks one thinking axis
_empty_dist_short(count) ==
  [ style_dist |-> [k \in Range(COMM_STYLE_LABELS) |-> 0],
    think_dist |-> [k \in Range(THINK_STYLE_LABELS) \ {"Risk_Awareness"} |-> 0],
    count |-> count ]
_empty_dist(count) ==
  [ style_dist |-> [k \in Range(COMM_STYLE_LABELS) |-> 0],
    think_dist |-> [k \in Range(THINK_STYLE_LABELS) |-> 0],
    count |-> count ]

\* variant that counts the rows carrying another label
ValueCount_other(df, col, label) == Cardinality({i \in 1..Len(df) : df[i][col] # label})
\* df["col"].value_counts().get(label, 0)
ValueCount(df, col, label) == Cardinality({i \in 1..Len(df) : df[i][col] = label})

_calc_dist(df) ==
  LET count == Len(df)
  IN  IF count = 0 THEN _empty_dist(0)
      ELSE
        [ style_dist |->
            [ label \in Range(COMM_STYLE_LABELS) |->
                Round4(ValueCount(df, "style_primary", label), count) ],
          think_dist |->
            [ label \in Range(THINK_STYLE_LABELS) |->
                Round4(ValueCount(df, "think_primary", label), count) ],
          count |-> count ]

\* df[col].unique(): values in order of first appearance
RECURSIVE Unique(_, _, _)
Unique(df, col, seen) ==
  IF df = <<>> THEN <<>>
  ELSE IF Head(df)[col] \in seen THEN Unique(Tail(df), col, seen)
  ELSE <<Head(df)[col]>> \o Unique(Tail(df), col, seen \cup {Head(df)[col]})

HasLabels(row) == row.style_primary # None /\ row.think_primary # None
IsCounterparty(row, cp) == row.counterparty = cp

\* the loop of build_distribution: result[cp] = _calc_dist(df[df.counterparty == cp])
RECURSIVE PutCounterparties(_, _, _)
PutCounterparties(result, df, cps) ==
  IF cps = <<>> THEN result
  ELSE LET cp == Head(cps)
           part == SelectSeq(df, LAMBDA row : IsCounterparty(row, cp))
       IN  PutCounterparties(DictPut(result, cp, _calc_dist(part)), df, Tail(cps))

build_distribution(messages) ==
  IF messages = <<>> THEN DictPut(EmptyDict, "global", _empty_dist(0))
  ELSE
    LET df == SelectSeq(messages, HasLabels)
    IN  IF df = <<>> THEN DictPut(EmptyDict, "global", _empty_dist(0))
        ELSE PutCounterparties(DictPut(EmptyDict, "global", _calc_dist(df)), df,
                               Unique(df, "counterparty", {}))

RECURSIVE PutDiffs(_, _, _, _, _)
PutDiffs(diffs, dist_result, cps, global_style, global_think) ==
  IF cps = <<>> THEN diffs
  ELSE
    LET cp == Head(cps)
        dist == dist_result.at[cp]
        style_diff ==
          [ label \in Range(COMM_STYLE_LABELS) |->
              Round4Of(FnGet(dist.style_dist, label, 0) - FnGet(global_style, label, 0)) ]
        think_diff ==
          [ label \in Range(THINK_STYLE_LABELS) |->
              Round4Of(FnGet(dist.think_dist, label, 0) - FnGet(global_think, label, 0)) ]
        next ==
          IF cp = "global" THEN diffs
          ELSE DictPut(diffs, cp, [style_diff |-> style_diff, think_diff |-> think_diff])
    IN  PutDiffs(next, dist_result, Tail(cps), global_style, global_think)

\* variant that subtracts no global communication value
calc_diff_from_global_plain(dist_result) ==
  LET global_think == FnGet(DictGet(dist_result, "global", <<>>), "think_dist", <<>>)
  IN  PutDiffs(EmptyDict, dist_result, dist_result.keys, <<>>, global_think)
calc_diff_from_global(dist_result) ==
  LET global_style == FnGet(DictGet(dist_result, "global", <<>>), "style_dist", <<>>)
      global_think == FnGet(DictGet(dist_result, "global", <<>>), "think_dist", <<>>)
  IN  PutDiffs(EmptyDict, dist_result, dist_result.keys, global_style, global_think)

\* list.sort(key=lambda x: abs(x["diff"]), reverse=True): stable, so an item
\* goes behind every item whose key is at least its own
RECURSIVE InsertByAbs(_, _)
InsertByAbs(sorted, item) ==
  IF sorted = <<>> THEN <<item>>
  ELSE IF Abs(Head(sorted).diff) >= Abs(item.diff)
       THEN <<Head(sorted)>> \o InsertByAbs(Tail(sorted), item)
  ELSE <<item>> \o sorted

RECURSIVE SortByAbsDesc(_, _)
SortByAbsDesc(sorted, items) ==
  IF items = <<>> THEN sorted
  ELSE SortByAbsDesc(InsertByAbs(sorted, Head(items)), Tail(items))

\* f.items() of a mapping whose keys were inserted in the order of labels
ItemsInOrder(f, labels, kind) ==
  LET present == SelectSeq(labels, LAMBDA l : l \in DOMAIN f)
  IN  [i \in 1..Len(present) |-> [label |-> present[i], kind |-> kind, diff |-> f[present[i]]]]

\* the kind strings of the source as code points: komyunikeshon
\* (communication) and shikou (thinking)
KindComm == <<12467, 12511, 12517, 12491, 12465, 12540, 12471, 12519, 12531>>
KindThink == <<24605, 32771>>

\* variant that takes the first three items without sorting
top3_diff_unsorted(diffs, counterparty) ==
  IF counterparty \notin DictKeys(diffs) THEN <<>>
  ELSE
    LET cp_diffs == diffs.at[counterparty]
        items == ItemsInOrder(cp_diffs.style_diff, COMM_STYLE_LABELS, KindComm)
                   \o ItemsInOrder(cp_diffs.think_diff, THINK_STYLE_LABELS, KindThink)
    IN  SubSeq(items, 1, Min2(3, Len(items)))
top3_diff(diffs, counterparty) ==
  IF counterparty \notin DictKeys(diffs) THEN <<>>
  ELSE
    LET cp_diffs == diffs.at[counterparty]
        items == ItemsInOrder(cp_diffs.style_diff, COMM_STYLE_LABELS, KindComm)
                   \o ItemsInOrder(cp_diffs.think_diff, THINK_STYLE_LABELS, KindThink)
        sorted == SortByAbsDesc(<<>>, items)
    IN  SubSeq(sorted, 1, Min2(3, Len(sorted)))

SummaryNote ==
  "This JSON contains only aggregated statistics. No raw message content is included."

\* f"user_{hash(s) % 99999:05d}" and f"room_{hash(s) % 99999:05d}"
HashTag(prefix, s, hash) == <<prefix, hash[s] % 99999>>

RECURSIVE PutRooms(_, _, _, _, _)
PutRooms(by_cp, dist_result, diffs, cps, hash) ==
  IF cps = <<>> THEN by_cp
  ELSE
    LET cp == Head(cps)
        dist == dist_result.at[cp]
        entry ==
          [ display_name |-> cp,
            count |-> dist.count,
            style_dist |-> dist.style_dist,
            think_dist |-> dist.think_dist,
            diff_from_global |-> DictGet(diffs, cp, <<>>),
            top3_diff |-> top3_diff(diffs, cp) ]
        next == IF cp = "global" THEN by_cp
                ELSE DictPut(by_cp, HashTag("room_", cp, hash), entry)
    IN  PutRooms(next, dist_result, diffs, Tail(cps), hash)

\* hash: the str hash of the running interpreter (builtin hash())
build_summary_json(dist_result, diffs, my_name, hash) ==
  [ meta |-> [my_name_hash |-> HashTag("user_", my_name, hash), note |-> SummaryNote],
    global |-> DictGet(dist_result, "global", <<>>),
    by_counterparty |-> PutRooms(EmptyDict, dist_result, diffs, dist_result.keys, hash) ]
(***************************************************************************)
(* State                                                                   *)
(***************************************************************************)
VARIABLES
  db_messages,   \* db: table messages, id -> row
  db_labels,     \* db: table labels, message_id -> label row
  db_next_id,    \* db: next AUTOINCREMENT id of messages
  tab2_dist,     \* tab 2 of the latest script run: dist_result
  tab2_diffs,    \* tab 2 of the latest script run: diffs
  summary_json,  \* st.session_state["summary_json"]
  str_hash,      \* str hashes the running interpreter has handed out
  score_input,   \* message list given to calculate_axis_scores
  score_output,  \* its result
  diff_input,    \* distribution mapping given to calc_diff_from_global
  diff_output,   \* its result
  top_input,     \* arguments given to top3_diff
  top_output,    \* its result
  downloaded,    \* zenbu_jibun_summary.json as last downloaded, with its inputs
  score_kept,    \* an earlier call of calculate_axis_scores: arguments, result
  conf_input,    \* arguments given to calculate_confidence
  conf_output,   \* its result
  frame_rows,    \* a list of message records owned by a caller
  frame_before,  \* that list as it was when the caller last passed it on
  frame_scores,  \* what calculate_axis_scores returned for it
  frame_dist,    \* what build_distribution returned for it
  feat_text,     \* text given to extract_features
  feat_output,   \* its result
  auth_users,    \* db: table users, user_id -> row
  auth_now,      \* datetime.now(), in minutes
  auth_session,  \* per browser session: st.session_state["authed_uid"]
  auth_page,     \* the latest script run of app.py: session, uid, what it rendered
  auth_calls,    \* per browser session: a verify_passcode call between its SELECT and its UPDATE
  auth_wrong,    \* per user: wrong attempts compared since the last success or set_passcode
  auth_last,     \* the latest passcode call that returned: arguments, row read, result
  store_last,    \* per (user_id, source): the rows of the latest non-empty upsert
  store_prev,    \* the tables before the latest write, and which pair it wrote
  parse_content, \* the decoded text of the file given to parse_line_txt
  parse_lines,   \* lines = content.splitlines()
  parse_pos,     \* number of lines the loop has consumed
  parse_current, \* current_msg
  parse_msgs,    \* result.messages
  parse_skipped, \* result.skipped_lines
  parse_pc       \* parse_line_txt: "input" before the call, "loop", "returned"

vars ==
  << db_messages, db_labels, db_next_id, tab2_dist, tab2_diffs, summary_json, str_hash,
     score_input, score_output, diff_input, diff_output, top_input, top_output,
     downloaded, score_kept, conf_input, conf_output,
     frame_rows, frame_before, frame_scores, frame_dist,
     feat_text, feat_output,
     auth_users, auth_now, auth_session, auth_page, auth_calls, auth_wrong, auth_last,
     store_last, store_prev,
     parse_content, parse_lines, parse_pos, parse_current, parse_msgs, parse_skipped,
     parse_pc >>

dbVars == <<db_messages, db_labels, db_next_id>>
tabVars == <<tab2_dist, tab2_diffs>>
sessionVars == <<summary_json, str_hash>>
scoreVars == <<score_input, score_output, score_kept>>
diffVars == <<diff_input, diff_output, top_input, top_output>>
fileVars == <<downloaded>>
confVars == <<conf_input, conf_output>>
frameVars == <<frame_rows, frame_before, frame_scores, frame_dist>>
featVars == <<feat_text, feat_output>>
authVars ==
  <<auth_users, auth_now, auth_session, auth_page, auth_calls, auth_wrong, auth_last>>
storeVars == <<store_last, store_prev>>
parseVars ==
  <<parse_content, parse_lines, parse_pos, parse_current, parse_msgs, parse_skipped,
    parse_pc>>
lateVars == <<featVars, authVars, storeVars, parseVars>>

Db == [messages |-> db_messages, labels |-> db_labels, next_id |-> db_next_id]

\* no value yet
Nothing == [none |-> TRUE]

\* browser sessions, each with its own st.session_state
Sessions == {"s1", "s2"}

Init ==
  /\ db_messages = <<>>
  /\ db_labels = <<>>
  /\ db_next_id = 1
  /\ tab2_dist = EmptyDict
  /\ tab2_diffs = EmptyDict
  /\ summary_json = Nothing
  /\ str_hash = <<>>
  /\ score_input = <<>>
  /\ score_output = Nothing
  /\ diff_input = EmptyDict
  /\ diff_output = Nothing
  /\ top_input = Nothing
  /\ top_output = Nothing
  /\ downloaded = Nothing
  /\ score_kept = Nothing
  /\ conf_input = Nothing
  /\ conf_output = Nothing
  /\ frame_rows = <<>>
  /\ frame_before = Nothing
  /\ frame_scores = Nothing
  /\ frame_dist = Nothing
  /\ feat_text = <<>>
  /\ feat_output = Nothing
  /\ auth_users = <<>>
  /\ auth_now = 0
  /\ auth_session = [s \in Sessions |-> Nothing]
  /\ auth_page = Nothing
  /\ auth_calls = [s \in Sessions |-> Nothing]
  /\ auth_wrong = <<>>
  /\ auth_last = Nothing
  /\ store_last = <<>>
  /\ store_prev = Nothing
  /\ parse_content = <<>>
  /\ parse_lines = <<>>
  /\ parse_pos = 0
  /\ parse_current = Nothing
  /\ parse_msgs = <<>>
  /\ parse_skipped = 0
  /\ parse_pc = "input"

(***************************************************************************)
(* app.py: one script run per action                                       *)
(***************************************************************************)
ParsedMessages == [speaker : Speakers, text : ImportTexts]
ParsedFiles == UNION {[1..n -> ParsedMessages] : n \in 0..MaxBatch}

\* the rerun after a change of the database: tab 2 computes dist_result and
\* diffs again, and nothing while the user has no message at all
SetDb(db) ==
  LET msgs == fetch_my_messages_with_labels(db, USER_ID)
      dr == build_distribution(msgs)
  IN  /\ db_messages' = db.messages
      /\ db_labels' = db.labels
      /\ db_next_id' = db.next_id
      /\ tab2_dist' = IF msgs = <<>> THEN EmptyDict ELSE dr
      /\ tab2_diffs' = IF msgs = <<>> THEN EmptyDict ELSE calc_diff_from_global(dr)

\* tab 1: process_files on one uploaded file, then st.rerun(); several files
\* uploaded at once are this step once per file
ProcessFiles(filename, parsed, min_chars) ==
  /\ db_next_id + Len(parsed) - 1 <= MaxId
  /\ SetDb(process_file(Db, filename, parsed, MyName, min_chars, USER_ID))
  /\ UNCHANGED <<sessionVars, scoreVars, diffVars, fileVars, confVars, frameVars, lateVars>>

\* sidebar: delete_source, then st.rerun()
DeleteSource(filename) ==
  /\ SourceIds(Db, USER_ID, filename) # {}
  /\ SetDb(delete_source(Db, USER_ID, filename))
  /\ UNCHANGED <<sessionVars, scoreVars, diffVars, fileVars, confVars, frameVars, lateVars>>

\* hash(s) of the running interpreter: randomised per process, fixed within
\* it; a negative one, a small one and one above the modulus 99999
HashValues == {0 - 2, 1, 100000}

\* variant whose note quotes the first message
ExportSummary_quote(msgs_exp, my_name, hash) ==
  LET dr == build_distribution(msgs_exp)
      dfs2 == calc_diff_from_global(dr)
  IN  [build_summary_json(dr, dfs2, my_name, hash) EXCEPT !.meta.note = msgs_exp[1].text]
\* tab 3: what the handler of the export button computes
ExportSummary(msgs_exp, my_name, hash) ==
  LET dr == build_distribution(msgs_exp)
      dfs2 == calc_diff_from_global(dr)
  IN  build_summary_json(dr, dfs2, my_name, hash)

\* tab 3: the export button, enabled while the user has messages; hash() is
\* sampled for the strings hashed for the first time in this process
Export ==
  LET msgs_exp == fetch_my_messages_with_labels(Db, USER_ID)
      needed == {MyName} \cup (DictKeys(build_distribution(msgs_exp)) \ {"global"})
      fresh == needed \ DOMAIN str_hash
  IN  /\ msgs_exp # <<>>
      /\ \E h \in [fresh -> HashValues] :
           LET hash == [s \in DOMAIN str_hash \cup fresh |->
                          IF s \in fresh THEN h[s] ELSE str_hash[s]]
           IN  /\ str_hash' = hash
               /\ summary_json' = ExportSummary(msgs_exp, MyName, hash)
      /\ UNCHANGED <<dbVars, tabVars, scoreVars, diffVars, fileVars, confVars, frameVars, lateVars>>

\* the server process starts again: a new hash seed, an empty session
Restart ==
  /\ str_hash # <<>>
  /\ str_hash' = <<>>
  /\ summary_json' = Nothing
  /\ UNCHANGED <<dbVars, tabVars, scoreVars, diffVars, fileVars, confVars, frameVars, lateVars>>

NextImport ==
  \/ \E f \in FileNames, parsed \in ParsedFiles, mc \in MinCharsChoices :
       ProcessFiles(f, parsed, mc)
  \/ \E f \in FileNames : DeleteSource(f)

\* the import pipeline and the analysis tab
Next == NextImport

Spec == Init /\ [][Next]_vars

\* the export tab; the sessions explored change the database before the
\* export button is pressed, not while a summary is on display
NextExport ==
  \/ summary_json = Nothing /\ NextImport
  \/ Export
  \/ Restart

SpecExport == Init /\ [][NextExport]_vars

(***************************************************************************)
(* classify_rules.py called on a message list                              *)
(***************************************************************************)
ScoreTexts ==
  {TextOk, TextAsk, TextWhy, TextNum, TextThanks, TextLaugh, TextLong, TextManyQ}
\* the calls remembered for a later comparison are of one of these messages
KeptTexts == {TextAsk, TextLong}

AddMessage(t) ==
  /\ Len(score_input) < MaxList
  /\ score_input' = Append(score_input, [text |-> t])
  /\ score_output' = Nothing
  /\ UNCHANGED <<score_kept, dbVars, tabVars, sessionVars, diffVars, fileVars, confVars,
                 frameVars, lateVars>>

ClearMessages ==
  /\ score_input # <<>>
  /\ score_input' = <<>>
  /\ score_output' = Nothing
  /\ UNCHANGED <<score_kept, dbVars, tabVars, sessionVars, diffVars, fileVars, confVars,
                 frameVars, lateVars>>

\* what is remembered of earlier calls once this one has returned scores: the
\* first remembered call stays, and whether another list was scored since
KeptAfter(kept, messages, scores) ==
  IF kept = Nothing
  THEN {Nothing} \cup
       (IF Len(messages) = 1 /\ messages[1].text \in KeptTexts
        THEN {[messages |-> messages, scores |-> scores, between |-> FALSE]}
        ELSE {})
  ELSE {[kept EXCEPT !.between = @ \/ messages # kept.messages]}

\* variant in which the feature sums of the remembered call survive into
\* the next one
Score_stale ==
  /\ score_output = Nothing
  /\ score_output' = calculate_axis_scores(
                        IF score_kept # Nothing /\ score_kept.between
                        THEN score_kept.messages \o score_input ELSE score_input)
  /\ score_kept' \in KeptAfter(score_kept, score_input, score_output')
  /\ UNCHANGED <<score_input, dbVars, tabVars, sessionVars, diffVars, fileVars, confVars,
                 frameVars, lateVars>>
Score ==
  /\ score_output = Nothing
  /\ score_output' = calculate_axis_scores(score_input)
  /\ score_kept' \in KeptAfter(score_kept, score_input, score_output')
  /\ UNCHANGED <<score_input, dbVars, tabVars, sessionVars, diffVars, fileVars, confVars,
                 frameVars, lateVars>>

NextScores ==
  \/ \E t \in ScoreTexts : AddMessage(t)
  \/ ClearMessages
  \/ Score

SpecScores == Init /\ [][NextScores]_vars

(***************************************************************************)
(* aggregate.py called on hand-made distributions                          *)
(***************************************************************************)
\* a mapping over the labels S given by its non-zero entries
Sparse(S, f) == [k \in S |-> IF k \in DOMAIN f THEN f[k] ELSE 0]

GroupNames == {"global", "A", "B"}

\* distributions as a caller may hand them over: complete ones, one whose
\* values have 5 decimals, one with axis keys missing
DistChoices ==
  { _empty_dist(0),
    [ style_dist |-> Sparse(CommLabels, [Lead_Directiveness |-> 50000, Brevity |-> 50000]),
      think_dist |-> Sparse(ThinkLabels, [Abstractness |-> 100000]),
      count |-> 2 ],
    [ style_dist |-> Sparse(CommLabels, [Collaboration |-> 100000]),
      think_dist |-> Sparse(ThinkLabels, [Structural_Thinking |-> 50000,
                                          Risk_Awareness |-> 50000]),
      count |-> 4 ],
    [ style_dist |-> Sparse(CommLabels, [Lead_Directiveness |-> 33333,
                                         Active_Listening |-> 33336,
                                         Brevity |-> 33330]),
      think_dist |-> Sparse(ThinkLabels, [Abstractness |-> 12346, Future_Oriented |-> 87653]),
      count |-> 3 ],
    [ style_dist |-> [Lead_Directiveness |-> 25000, Brevity |-> 75000],
      think_dist |-> <<>>,
      count |-> 4 ] }

\* dist_result[name] = dist
PutGroup(name, dist) ==
  /\ diff_input' = DictPut(diff_input, name, dist)
  /\ diff_output' = Nothing
  /\ top_input' = Nothing
  /\ top_output' = Nothing
  /\ UNCHANGED <<dbVars, tabVars, sessionVars, scoreVars, fileVars, confVars, frameVars,
                 lateVars>>

ClearGroups ==
  /\ diff_input # EmptyDict
  /\ diff_input' = EmptyDict
  /\ diff_output' = Nothing
  /\ top_input' = Nothing
  /\ top_output' = Nothing
  /\ UNCHANGED <<dbVars, tabVars, sessionVars, scoreVars, fileVars, confVars, frameVars,
                 lateVars>>

Diff ==
  /\ diff_output = Nothing
  /\ diff_output' = calc_diff_from_global(diff_input)
  /\ UNCHANGED <<diff_input, top_input, top_output, dbVars, tabVars, sessionVars, scoreVars,
                 fileVars, confVars, frameVars, lateVars>>

\* diffs with fewer than three axes for one counterparty
ShortDiffs ==
  DictPut(EmptyDict, "A",
          [ style_diff |-> [Collaboration |-> 0 - 20000, Brevity |-> 20000],
            think_diff |-> <<>> ])

TopNames == {"A", "B", "C"}

Top3(diffs, counterparty) ==
  /\ diff_output # Nothing
  /\ top_input' = [diffs |-> diffs, counterparty |-> counterparty]
  /\ top_output' = top3_diff(diffs, counterparty)
  /\ UNCHANGED <<diff_input, diff_output, dbVars, tabVars, sessionVars, scoreVars,
                 fileVars, confVars, frameVars, lateVars>>

NextDiff ==
  \/ \E name \in GroupNames, dist \in DistChoices : PutGroup(name, dist)
  \/ ClearGroups
  \/ Diff
  \/ \E diffs \in {diff_output, ShortDiffs}, cp \in TopNames : Top3(diffs, cp)

SpecDiff == Init /\ [][NextDiff]_vars


(***************************************************************************)
(* classify_rules.py: calculate_confidence called on two counts            *)
(***************************************************************************)
\* counts below, at and above the two saturation points (200 messages, 5000
\* characters), and some whose average lies exactly between two hundredths
MsgCounts == {0, 1, 2, 3, 20, 100, 199, 200, 201, 1000}
CharCounts == {0, 1, 49, 50, 51, 500, 2500, 4999, 5000, 5001, 100000}

SetCounts(msg_count, char_count) ==
  /\ conf_input' = [msg_count |-> msg_count, char_count |-> char_count]
  /\ conf_output' = Nothing
  /\ UNCHANGED <<dbVars, tabVars, sessionVars, scoreVars, diffVars, fileVars, frameVars,
                 lateVars>>

Confidence ==
  /\ conf_input # Nothing
  /\ conf_output = Nothing
  /\ \E v \in calculate_confidence(conf_input.msg_count, conf_input.char_count) :
       conf_output' = [hundredths |-> v]
  /\ UNCHANGED <<conf_input, dbVars, tabVars, sessionVars, scoreVars, diffVars, fileVars,
                 frameVars, lateVars>>

NextConfidence ==
  \/ \E m \in MsgCounts, c \in CharCounts : SetCounts(m, c)
  \/ Confidence

SpecConfidence == Init /\ [][NextConfidence]_vars

(***************************************************************************)
(* app.py, tab 3: exports of one corpus before and after a restart         *)
(***************************************************************************)
\* the download button under the generated summary: the file keeps what the
\* session showed, and outlives the server process
Download ==
  LET msgs_exp == fetch_my_messages_with_labels(Db, USER_ID)
  IN  /\ summary_json # Nothing
      /\ downloaded' = [dist |-> build_distribution(msgs_exp), json |-> summary_json]
      /\ UNCHANGED <<dbVars, tabVars, sessionVars, scoreVars, diffVars, confVars, frameVars,
                 lateVars>>

\* one import into the empty database, then exports, downloads and restarts
NextRepro ==
  \/ \E f \in FileNames, parsed \in ParsedFiles, mc \in MinCharsChoices :
       db_next_id = 1 /\ ProcessFiles(f, parsed, mc)
  \/ Export
  \/ Download
  \/ Restart

SpecRepro == Init /\ [][NextRepro]_vars

(***************************************************************************)
(* a caller's list of message records handed to the two functions          *)
(***************************************************************************)
\* rows as fetch_my_messages_with_labels returns them: labelled ones of two
\* counterparties, and ones without labels (LEFT JOIN without a labels row)
FrameRowChoices ==
  { [ counterparty |-> "A", is_me |-> 1, text |-> TextAsk,
      style_primary |-> "Lead_Directiveness", think_primary |-> "Structural_Thinking" ],
    [ counterparty |-> "A", is_me |-> 0, text |-> TextOk,
      style_primary |-> None, think_primary |-> None ],
    [ counterparty |-> "B", is_me |-> 1, text |-> TextNum,
      style_primary |-> "Collaboration", think_primary |-> "Structural_Thinking" ],
    [ counterparty |-> "B", is_me |-> 1, text |-> TextLaugh,
      style_primary |-> None, think_primary |-> None ] }

\* the caller's list after calculate_axis_scores(messages): the function
\* reads it with len(), iteration and m.get() and assigns to nothing of it
scored_messages(messages) == messages

\* variant in which dropna acts on the caller's records
distributed_messages_dropna(messages) == SelectSeq(messages, HasLabels)
\* the caller's list after build_distribution(messages): pd.DataFrame(messages)
\* copies the records into a frame, and dropna and df[mask] return new frames
distributed_messages(messages) == messages

AddRow(row) ==
  /\ Len(frame_rows) < MaxList
  /\ frame_rows' = Append(frame_rows, row)
  /\ frame_before' = Nothing
  /\ frame_scores' = Nothing
  /\ frame_dist' = Nothing
  /\ UNCHANGED <<dbVars, tabVars, sessionVars, scoreVars, diffVars, fileVars, confVars,
                 lateVars>>

ClearRows ==
  /\ frame_rows # <<>>
  /\ frame_rows' = <<>>
  /\ frame_before' = Nothing
  /\ frame_scores' = Nothing
  /\ frame_dist' = Nothing
  /\ UNCHANGED <<dbVars, tabVars, sessionVars, scoreVars, diffVars, fileVars, confVars,
                 lateVars>>

FrameScore ==
  /\ frame_scores = Nothing
  /\ frame_before' = [rows |-> frame_rows]
  /\ frame_scores' = calculate_axis_scores(frame_rows)
  /\ frame_rows' = scored_messages(frame_rows)
  /\ UNCHANGED <<frame_dist, dbVars, tabVars, sessionVars, scoreVars, diffVars, fileVars,
                 confVars, lateVars>>

FrameDist ==
  /\ frame_dist = Nothing
  /\ frame_before' = [rows |-> frame_rows]
  /\ frame_dist' = build_distribution(frame_rows)
  /\ frame_rows' = distributed_messages(frame_rows)
  /\ UNCHANGED <<frame_scores, dbVars, tabVars, sessionVars, scoreVars, diffVars, fileVars,
                 confVars, lateVars>>

NextFrame ==
  \/ \E row \in FrameRowChoices : AddRow(row)
  \/ ClearRows
  \/ FrameScore
  \/ FrameDist

SpecFrame == Init /\ [][NextFrame]_vars

(***************************************************************************)
(* classify_rules.py: extract_features called on a text                    *)
(***************************************************************************)
\* the pieces a text is made of: naze (a deep-question keyword), mazu (a
\* proposal and structure keyword), the upper-case framework keyword KPI,
\* and shite (a directive keyword)
TextPieces ==
  { <<12394, 12380>>, <<12414, 12378>>, <<75, 80, 73>>, <<12375, 12390>> }

AddPiece(piece) ==
  /\ Len(feat_text) < MaxList * 3
  /\ feat_text' = feat_text \o piece
  /\ feat_output' = Nothing
  /\ UNCHANGED <<dbVars, tabVars, sessionVars, scoreVars, diffVars, fileVars, confVars,
                 frameVars, authVars, storeVars, parseVars>>

ClearText ==
  /\ feat_text # <<>>
  /\ feat_text' = <<>>
  /\ feat_output' = Nothing
  /\ UNCHANGED <<dbVars, tabVars, sessionVars, scoreVars, diffVars, fileVars, confVars,
                 frameVars, authVars, storeVars, parseVars>>

Extract ==
  /\ feat_output = Nothing
  /\ feat_output' = [features |-> extract_features(feat_text)]
  /\ UNCHANGED <<feat_text, dbVars, tabVars, sessionVars, scoreVars, diffVars, fileVars,
                 confVars, frameVars, authVars, storeVars, parseVars>>

NextFeatures ==
  \/ \E piece \in TextPieces : AddPiece(piece)
  \/ ClearText
  \/ Extract

SpecFeatures == Init /\ [][NextFeatures]_vars

(***************************************************************************)
(* db.py: table users and the passcode functions                           *)
(***************************************************************************)
\* defaults of verify_passcode
max_attempts == 5
lock_duration_minutes == 10

\* wrong attempts are explored while failed_count is below this
MaxFailed == 7
\* the clock runs up to this minute
MaxTime == 20

\* passcodes as code points: 1234, 0000, and the too short 12
Pass1234 == <<49, 50, 51, 52>>
Pass0000 == <<48, 48, 48, 48>>
Pass12 == <<49, 50>>
Passcodes == {Pass1234, Pass0000}

\* secrets.token_bytes(32): one salt stands for the fresh salts
Salt == "salt"

\* PBKDF2-HMAC-SHA256, taken as collision free
_hash_passcode(passcode, salt) == <<passcode, salt>>

\* SELECT ... FROM users WHERE user_id = ? ... fetchone(): the row or None
select_user(users, user_id) ==
  IF user_id \in DOMAIN users THEN users[user_id] ELSE Nothing

\* locked_dt > datetime.now() of a locked_until column that is not NULL
InFuture(locked_until, now) ==
  locked_until # Nothing /\ locked_until.minute > now

\* variant that never reports a lock
get_user_auth_state_unlocked(users, user_id, now) ==
  LET row == select_user(users, user_id)
  IN  IF row = Nothing
      THEN [has_pass |-> FALSE, locked_until |-> Nothing, failed_count |-> 0]
      ELSE [ has_pass |-> TRUE, locked_until |-> Nothing,
             failed_count |-> row.failed_count ]
get_user_auth_state(users, user_id, now) ==
  LET row == select_user(users, user_id)
  IN  IF row = Nothing
      THEN [has_pass |-> FALSE, locked_until |-> Nothing, failed_count |-> 0]
      ELSE [ \* bool(row["pass_hash"]): the hash is 32 bytes, never empty
             has_pass |-> TRUE,
             locked_until |->
               IF InFuture(row.locked_until, now) THEN row.locked_until ELSE Nothing,
             failed_count |-> row.failed_count ]

\* INSERT OR REPLACE INTO users ... VALUES (?, ?, ?, now, 0, NULL)
set_passcode(users, user_id, passcode) ==
  [ u \in DOMAIN users \cup {user_id} |->
      IF u = user_id
      THEN [ pass_salt |-> Salt, pass_hash |-> _hash_passcode(passcode, Salt),
             failed_count |-> 0, locked_until |-> Nothing ]
      ELSE users[u] ]

\* verify_passcode up to the comparison: whether the call returns before it
\* (no row, or the lock is still running)
returns_early(row, now) == row = Nothing \/ InFuture(row.locked_until, now)

\* variant in which the success branch leaves the counter alone
verify_update_keep(users, user_id, passcode, row, now) ==
  IF _hash_passcode(passcode, row.pass_salt) = row.pass_hash
  THEN [ users |-> [users EXCEPT ![user_id].locked_until = Nothing],
         result |-> [success |-> TRUE, locked_until |-> Nothing] ]
  ELSE
    LET new_count == row.failed_count + 1
        locked_until == [minute |-> now + lock_duration_minutes]
    IN  IF new_count >= max_attempts
        THEN [ users |-> [users EXCEPT ![user_id].failed_count = new_count,
                                       ![user_id].locked_until = locked_until],
               result |-> [success |-> FALSE, locked_until |-> locked_until] ]
        ELSE [ users |-> [users EXCEPT ![user_id].failed_count = new_count],
               result |-> [success |-> FALSE, locked_until |-> Nothing] ]
\* verify_passcode from the comparison on, for the row that its SELECT read:
\* the UPDATE of the branch taken, and the result
verify_update(users, user_id, passcode, row, now) ==
  IF _hash_passcode(passcode, row.pass_salt) = row.pass_hash
  THEN [ users |-> [users EXCEPT ![user_id].failed_count = 0,
                                 ![user_id].locked_until = Nothing],
         result |-> [success |-> TRUE, locked_until |-> Nothing] ]
  ELSE
    LET new_count == row.failed_count + 1
        locked_until == [minute |-> now + lock_duration_minutes]
    IN  IF new_count >= max_attempts
        THEN [ users |-> [users EXCEPT ![user_id].failed_count = new_count,
                                       ![user_id].locked_until = locked_until],
               result |-> [success |-> FALSE, locked_until |-> locked_until] ]
        ELSE [ users |-> [users EXCEPT ![user_id].failed_count = new_count],
               result |-> [success |-> FALSE, locked_until |-> Nothing] ]

\* variant without the lock check
verify_passcode_nolock(users, user_id, passcode, now) ==
  LET row == select_user(users, user_id)
  IN  IF row = Nothing
      THEN [users |-> users, result |-> [success |-> FALSE, locked_until |-> Nothing]]
      ELSE verify_update(users, user_id, passcode, row, now)
\* verify_passcode run without interruption
verify_passcode(users, user_id, passcode, now) ==
  LET row == select_user(users, user_id)
  IN  IF row = Nothing
      THEN [users |-> users, result |-> [success |-> FALSE, locked_until |-> Nothing]]
      ELSE IF InFuture(row.locked_until, now)
      THEN [ users |-> users,
             result |-> [success |-> FALSE, locked_until |-> row.locked_until] ]
      ELSE verify_update(users, user_id, passcode, row, now)

(***************************************************************************)
(* Calls of the passcode functions, one at a time                          *)
(***************************************************************************)
\* uids as code points: abcdef12 and ABCDEF12
UidA == <<97, 98, 99, 100, 101, 102, 49, 50>>
UidB == <<65, 66, 67, 68, 69, 70, 49, 50>>
UserIds == {UidA, UidB}

\* minutes that pass between two calls
TickChoices == {5, 10}

otherVars ==
  << dbVars, tabVars, sessionVars, scoreVars, diffVars, fileVars, confVars, frameVars,
     featVars, storeVars, parseVars >>

Tick(d) ==
  /\ auth_now + d <= MaxTime
  /\ auth_now' = auth_now + d
  /\ UNCHANGED <<auth_users, auth_session, auth_page, auth_calls, auth_wrong, auth_last,
                 otherVars>>

\* the count of wrong attempts after a call: attempts that return before the
\* comparison are not counted, a success or a new passcode starts at 0
WrongAfter(wrong, user_id, counted) ==
  [ u \in DOMAIN wrong \cup {user_id} |->
      IF u = user_id THEN counted ELSE wrong[u] ]

\* what is remembered of a call that returned
CallRecord(call, user_id, passcode, row, now, result) ==
  [ call |-> call, user_id |-> user_id, passcode |-> passcode, row |-> row,
    now |-> now, result |-> result ]

SetPasscode(user_id, passcode) ==
  /\ auth_users' = set_passcode(auth_users, user_id, passcode)
  /\ auth_wrong' = WrongAfter(auth_wrong, user_id, 0)
  /\ auth_last' = CallRecord("set_passcode", user_id, passcode,
                             select_user(auth_users, user_id), auth_now, Nothing)
  /\ UNCHANGED <<auth_now, auth_session, auth_page, auth_calls, otherVars>>

VerifyPasscode(user_id, passcode) ==
  LET row == select_user(auth_users, user_id)
      out == verify_passcode(auth_users, user_id, passcode, auth_now)
  IN  /\ row # Nothing => row.failed_count < MaxFailed
      /\ auth_users' = out.users
      /\ auth_wrong' =
           IF returns_early(row, auth_now) THEN auth_wrong
           ELSE WrongAfter(auth_wrong, user_id,
                           IF out.result.success THEN 0 ELSE auth_wrong[user_id] + 1)
      /\ auth_last' = CallRecord("verify_passcode", user_id, passcode, row, auth_now,
                                 out.result)
      /\ UNCHANGED <<auth_now, auth_session, auth_page, auth_calls, otherVars>>

NextLock ==
  \/ \E d \in TickChoices : Tick(d)
  \/ \E u \in UserIds, p \in Passcodes : SetPasscode(u, p)
  \/ \E u \in UserIds, p \in Passcodes : VerifyPasscode(u, p)

SpecLock == Init /\ [][NextLock]_vars

(***************************************************************************)
(* verify_passcode called from two sessions at once: the SELECT and the    *)
(* UPDATE of a call are two statements, with no transaction around them    *)
(***************************************************************************)
\* the SELECT and the lock check; a call that returns early is over
VerifySelect(s, user_id, passcode) ==
  LET row == select_user(auth_users, user_id)
  IN  /\ auth_calls[s] = Nothing
      /\ row # Nothing => row.failed_count < MaxFailed
      /\ IF returns_early(row, auth_now)
         THEN /\ auth_last' =
                   CallRecord("verify_passcode", user_id, passcode, row, auth_now,
                              verify_passcode(auth_users, user_id, passcode, auth_now).result)
              /\ UNCHANGED auth_calls
         ELSE /\ auth_calls' =
                   [auth_calls EXCEPT ![s] =
                      [user_id |-> user_id, passcode |-> passcode, row |-> row]]
              /\ UNCHANGED auth_last
      /\ UNCHANGED <<auth_users, auth_now, auth_session, auth_page, auth_wrong, otherVars>>

\* the comparison, the UPDATE and the commit
VerifyUpdate(s) ==
  /\ auth_calls[s] # Nothing
  /\ LET c == auth_calls[s]
         out == verify_update(auth_users, c.user_id, c.passcode, c.row, auth_now)
     IN  /\ auth_users' = out.users
         /\ auth_wrong' =
              WrongAfter(auth_wrong, c.user_id,
                         IF out.result.success THEN 0 ELSE auth_wrong[c.user_id] + 1)
         /\ auth_last' = CallRecord("verify_passcode", c.user_id, c.passcode, c.row,
                                    auth_now, out.result)
  /\ auth_calls' = [auth_calls EXCEPT ![s] = Nothing]
  /\ UNCHANGED <<auth_now, auth_session, auth_page, otherVars>>

\* the passcode is set once, as through the form of the first visit
NextRace ==
  \/ \E d \in TickChoices : Tick(d)
  \/ UidA \notin DOMAIN auth_users /\ SetPasscode(UidA, Pass1234)
  \/ \E s \in Sessions, p \in Passcodes : VerifySelect(s, UidA, p)
  \/ \E s \in Sessions : VerifyUpdate(s)

SpecRace == Init /\ [][NextRace]_vars

(***************************************************************************)
(* app.py: the invitation check and the passcode gate of one script run    *)
(***************************************************************************)
\* [a-f0-9\-] under re.IGNORECASE
IsUidChar(c) ==
  \/ c >= 97 /\ c <= 102
  \/ c >= 65 /\ c <= 70
  \/ c >= 48 /\ c <= 57
  \/ c = 45

\* a missing parameter (None) and the empty string take the same branch of
\* "not uid"; both are the empty string here, and so is the result None
validate_uid(uid) ==
  LET stripped == Strip(uid)
  IN  IF stripped = <<>> THEN <<>>
      ELSE IF Len(stripped) >= 8 /\ \A i \in 1..Len(stripped) : IsUidChar(stripped[i])
      THEN stripped
      ELSE <<>>

\* ?uid= as it may arrive: missing, the two users, abcdef12 between blanks,
\* the too short abc-123, and abcdefg1 with a letter outside a-f
UidParams ==
  { <<>>, UidA, UidB, <<32>> \o UidA \o <<32>>,
    <<97, 98, 99, 45, 49, 50, 51>>, <<97, 98, 99, 100, 101, 102, 103, 49>> }

\* validate_uid, evaluated once for each parameter of the model
ValidOfParam == [p \in UidParams |-> validate_uid(p)]
ValidUid(p) == IF p \in UidParams THEN ValidOfParam[p] ELSE validate_uid(p)

\* what the browser sends with the run: no form, set_passcode_form or
\* unlock_form
SubmitChoices ==
  { [form |-> "none"],
    [form |-> "set", new_pass |-> Pass1234, new_pass_confirm |-> Pass1234],
    [form |-> "set", new_pass |-> Pass1234, new_pass_confirm |-> Pass0000],
    [form |-> "set", new_pass |-> Pass12, new_pass_confirm |-> Pass12],
    [form |-> "unlock", input_pass |-> Pass1234],
    [form |-> "unlock", input_pass |-> Pass0000] }

\* lines 61-142 of one script run, with the run that st.rerun() starts after
\* a passcode was accepted: the table users, the session's authed_uid, what
\* was rendered last, and the passcode call made
gate(users, authed_uid, uid_param, submit, now) ==
  LET uid == ValidUid(uid_param)
      auth_state == get_user_auth_state(users, uid, now)
      stop(view) ==
        [users |-> users, authed_uid |-> authed_uid, view |-> view, call |-> Nothing]
  IN  IF uid = <<>> THEN stop("invite")
      ELSE IF authed_uid = [uid |-> uid] THEN stop("pages")
      ELSE IF auth_state.locked_until # Nothing THEN stop("locked")
      ELSE IF ~auth_state.has_pass
      THEN IF submit.form # "set" THEN stop("set_form")
           ELSE IF Len(submit.new_pass) < 4 THEN stop("set_form")
           ELSE IF submit.new_pass # submit.new_pass_confirm THEN stop("set_form")
           ELSE [ users |-> set_passcode(users, uid, submit.new_pass),
                  authed_uid |-> [uid |-> uid], view |-> "pages",
                  call |-> CallRecord("set_passcode", uid, submit.new_pass,
                                      select_user(users, uid), now, Nothing) ]
      ELSE IF submit.form # "unlock" THEN stop("unlock_form")
           ELSE LET result == verify_passcode(users, uid, submit.input_pass, now)
                    call == CallRecord("verify_passcode", uid, submit.input_pass,
                                       select_user(users, uid), now, result.result)
                IN  IF result.result.success
                    THEN [ users |-> result.users, authed_uid |-> [uid |-> uid],
                           view |-> "pages", call |-> call ]
                    ELSE [ users |-> result.users, authed_uid |-> authed_uid,
                           view |-> "unlock_form", call |-> call ]

\* one script run of a session; auth_page keeps what the claims about the
\* gate need of it: whether the uid was locked and had a passcode when the
\* run started, what was rendered, and the passcode call made
GateRun(s, uid_param, submit) ==
  \E uid \in {ValidUid(uid_param)} :
    \E row \in {select_user(auth_users, uid)} :
      \E out \in {gate(auth_users, auth_session[s], uid_param, submit, auth_now)} :
        /\ row # Nothing => row.failed_count < MaxFailed
        /\ auth_users' = out.users
        /\ auth_session' = [auth_session EXCEPT ![s] = out.authed_uid]
        /\ auth_page' =
             [ session |-> s, uid |-> uid, view |-> out.view,
               has_pass |-> row # Nothing,
               locked |-> row # Nothing /\ InFuture(row.locked_until, auth_now),
               call |-> IF out.call = Nothing THEN "none" ELSE out.call.call,
               success |-> out.call # Nothing /\ out.call.call = "verify_passcode"
                             /\ out.call.result.success ]
        /\ UNCHANGED <<auth_now, auth_calls, auth_wrong, auth_last, otherVars>>

\* the browser tab is closed and opened again: an empty session state, and
\* what the closed tab showed is gone
NewSession(s) ==
  /\ auth_session[s] # Nothing
  /\ auth_session' = [auth_session EXCEPT ![s] = Nothing]
  /\ auth_page' = IF auth_page # Nothing /\ auth_page.session = s THEN Nothing ELSE auth_page
  /\ UNCHANGED <<auth_users, auth_now, auth_calls, auth_wrong, auth_last, otherVars>>

NextGate ==
  \/ \E d \in TickChoices : Tick(d)
  \/ \E s \in Sessions, uid_param \in UidParams, submit \in SubmitChoices :
       GateRun(s, uid_param, submit)
  \/ \E s \in Sessions : NewSession(s)

SpecGate == Init /\ [][NextGate]_vars

(***************************************************************************)
(* db.py: the tables messages and labels written for several users         *)
(***************************************************************************)
StoreUsers == {USER_ID, "u2"}
StoreFiles == {"A.txt", "B.txt"}

\* store_last after the rows of parsed were written for (user_id, source);
\* upsert_messages_batch returns at once for an empty list, which is no
\* upsert for any pair
LastAfter(last, user_id, source, parsed) ==
  IF parsed = <<>> THEN last
  ELSE [ p \in DOMAIN last \cup {<<user_id, source>>} |->
           IF p = <<user_id, source>> THEN parsed ELSE last[p] ]

\* process_files of one file for a user: upsert_messages_batch, then
\* upsert_labels_batch on the ids it returned
StoreImport(user_id, filename, parsed, min_chars) ==
  /\ db_next_id + Len(parsed) - 1 <= MaxId
  /\ SetDb(process_file(Db, filename, parsed, MyName, min_chars, user_id))
  /\ store_last' = LastAfter(store_last, user_id, filename, parsed)
  /\ store_prev' = [db |-> Db, user_id |-> user_id, source |-> filename]
  /\ UNCHANGED <<sessionVars, scoreVars, diffVars, fileVars, confVars, frameVars,
                 featVars, authVars, parseVars>>

StoreDelete(user_id, filename) ==
  /\ SourceIds(Db, user_id, filename) # {}
  /\ SetDb(delete_source(Db, user_id, filename))
  /\ store_last' =
       [p \in DOMAIN store_last \ {<<user_id, filename>>} |-> store_last[p]]
  /\ store_prev' = [db |-> Db, user_id |-> user_id, source |-> filename]
  /\ UNCHANGED <<sessionVars, scoreVars, diffVars, fileVars, confVars, frameVars,
                 featVars, authVars, parseVars>>

NextStore ==
  \/ \E u \in StoreUsers, f \in StoreFiles, parsed \in ParsedFiles,
        mc \in MinCharsChoices : StoreImport(u, f, parsed, mc)
  \/ \E u \in StoreUsers, f \in StoreFiles : StoreDelete(u, f)

SpecStore == Init /\ [][NextStore]_vars

(***************************************************************************)
(* line_parser.py: parse_line_txt                                          *)
(***************************************************************************)
MaxLines == 3     \* lines of a parsed file

\* str.rstrip()
RStrip(t) ==
  LET keep == {i \in 1..Len(t) : ~IsSpace(t[i])}
  IN  IF keep = {} THEN <<>> ELSE SubSeq(t, 1, SetMax(keep))

\* the line boundaries of str.splitlines()
IsLineBreak(c) == c \in {10, 11, 12, 13, 28, 29, 30, 133, 8232, 8233}
NotLineBreak(c) == ~IsLineBreak(c)

\* str.splitlines(): \r\n is one boundary, no empty last line
RECURSIVE splitlines(_)
splitlines(content) ==
  IF content = <<>> THEN <<>>
  ELSE LET e == RunEnd(content, 1, NotLineBreak)
           crlf == e < Len(content) /\ content[e] = 13 /\ content[e + 1] = 10
           rest == IF crlf THEN e + 2 ELSE e + 1
       IN  <<SubSeq(content, 1, e - 1)>> \o splitlines(SubSeq(content, rest, Len(content)))

\* the character at position i, 0 outside the line
CharAt(t, i) == IF i \in 1..Len(t) THEN t[i] ELSE 0
\* \d{n} at position p
DigitsAt(t, p, n) == \A i \in p..(p + n - 1) : i <= Len(t) /\ IsDigit(t[i])
\* str.startswith(prefix)
StartsWith(t, prefix) == Len(prefix) <= Len(t) /\ SubSeq(t, 1, Len(prefix)) = prefix
\* \s at every position of p..q-1
SpacesIn(t, p, q) == \A i \in p..(q - 1) : IsSpace(t[i])

\* positions just after a match of \d{1,2}:\d{2}(?::\d{2})? that starts at p
TimeEnds(t, p) ==
  { q \in p..(Len(t) + 1) :
      \E d \in {1, 2} :
        /\ DigitsAt(t, p, d)
        /\ CharAt(t, p + d) = 58
        /\ DigitsAt(t, p + d + 1, 2)
        /\ \/ q = p + d + 3
           \/ /\ q = p + d + 6
              /\ CharAt(t, p + d + 3) = 58
              /\ DigitsAt(t, p + d + 4, 2) }

\* (47 is /, 24180 is 年, 26376 is 月, 26085 is 日)
\* positions just after a match of \d{4} y \d{1,2} m \d{1,2} that starts at 1,
\* with the separators taken from ysep and msep, followed by a character of
\* dsep where optional is FALSE and by at most one where it is TRUE
DateEnds(t, ysep, msep, dsep, optional) ==
  { q \in 1..(Len(t) + 1) :
      \E a \in {1, 2}, b \in {1, 2} :
        /\ DigitsAt(t, 1, 4)
        /\ CharAt(t, 5) \in ysep
        /\ DigitsAt(t, 6, a)
        /\ CharAt(t, 6 + a) \in msep
        /\ DigitsAt(t, 7 + a, b)
        /\ \/ optional /\ q = 7 + a + b
           \/ q = 8 + a + b /\ CharAt(t, 7 + a + b) \in dsep }

\* (\(.+\))?$ at position q
ParenTail(t, q) ==
  \/ q = Len(t) + 1
  \/ CharAt(t, q) = 40 /\ t[Len(t)] = 41 /\ Len(t) >= q + 2

\* DATE_LINE_PATTERNS: some pattern matches the line; _parse_date_str then
\* matches the first group and returns a non-empty string
IsDateLine(line) ==
  \/ \E q \in DateEnds(line, {47}, {47}, {}, TRUE) : ParenTail(line, q)
  \/ \E q \in DateEnds(line, {24180}, {26376}, {26085}, FALSE) : ParenTail(line, q)

HeaderLine == <<91, 76, 73, 78, 69, 93>>                              \* [LINE]
HeaderTalk == <<76, 73, 78, 69, 32, 12398, 12488, 12540, 12463>>      \* LINE のトーク
HeaderSaved == <<20445, 23384, 26085, 26178>>                         \* 保存日時
HeaderHistory == <<12398, 12488, 12540, 12463, 23653, 27508>>         \* のトーク履歴

\* the header test of the loop
IsHeader(line) ==
  \/ StartsWith(line, HeaderLine)
  \/ StartsWith(line, HeaderTalk)
  \/ StartsWith(line, HeaderSaved) /\ CharAt(line, 5) \in {65306, 58}
  \/ /\ Len(line) > Len(HeaderHistory)
     /\ SubSeq(line, Len(line) - Len(HeaderHistory) + 1, Len(line)) = HeaderHistory

\* \t(.+?)\t(.*)$ at position q: the speaker ends before the first tab
\* that leaves it one character
TabTail(t, q) ==
  LET tabs == {r \in (q + 2)..Len(t) : t[r] = 9}
  IN  IF CharAt(t, q) # 9 \/ tabs = {} THEN Nothing
      ELSE LET r == SetMin(tabs)
           IN  [ speaker |-> SubSeq(t, q + 1, r - 1),
                 text |-> SubSeq(t, r + 1, Len(t)) ]

\* \s+(.+?)\s{2,}(.*)$ at position q: \s+ takes the most it can, the
\* speaker the least, \s{2,} the most
SpaceTail(t, q) ==
  LET n == Len(t)
      Gap(b, c) == c >= b + 2 /\ c <= n + 1 /\ SpacesIn(t, b, c)
      Ends(a) == {b \in (a + 1)..n : \E c \in (b + 2)..(n + 1) : Gap(b, c)}
      Starts == {a \in (q + 1)..n : SpacesIn(t, q, a) /\ Ends(a) # {}}
  IN  IF Starts = {} THEN Nothing
      ELSE LET a == SetMax(Starts)
               b == SetMin(Ends(a))
               c == SetMax({x \in (b + 2)..(n + 1) : Gap(b, x)})
           IN  [ speaker |-> SubSeq(t, a, b - 1), text |-> SubSeq(t, c, n) ]

\* the first tail that is a match, Nothing if none
FirstTail(tails) ==
  IF \A x \in tails : x = Nothing THEN Nothing
  ELSE CHOOSE x \in tails : x # Nothing

\* MSG_PATTERN_TAB.match(line)
MSG_PATTERN_TAB(line) == FirstTail({TabTail(line, q) : q \in TimeEnds(line, 1)})

\* MSG_PATTERN_SPACE.match(line)
MSG_PATTERN_SPACE(line) == FirstTail({SpaceTail(line, q) : q \in TimeEnds(line, 1)})

\* MSG_PATTERN_FULL_TAB.match(line)
MSG_PATTERN_FULL_TAB(line) ==
  FirstTail({ TabTail(line, q) :
                q \in UNION { TimeEnds(line, d + 1) :
                                d \in { x \in DateEnds(line, {47, 24180}, {47, 26376},
                                                       {26085}, TRUE) :
                                          CharAt(line, x) = 9 } } })

\* MSG_PATTERN_FULL.match(line): \s+ between date and time ends where the
\* digits of the time begin
MSG_PATTERN_FULL(line) ==
  FirstTail({ SpaceTail(line, q) :
                q \in UNION { TimeEnds(line, s) :
                                s \in UNION { { y \in (x + 1)..Len(line) : SpacesIn(line, x, y) } :
                                                x \in DateEnds(line, {47, 24180}, {47, 26376},
                                                               {26085}, TRUE) } } })

\* the match that starts a message: the four patterns in the order of the loop
MessageStart(line) ==
  IF MSG_PATTERN_FULL_TAB(line) # Nothing THEN MSG_PATTERN_FULL_TAB(line)
  ELSE IF MSG_PATTERN_FULL(line) # Nothing THEN MSG_PATTERN_FULL(line)
  ELSE IF MSG_PATTERN_TAB(line) # Nothing THEN MSG_PATTERN_TAB(line)
  ELSE MSG_PATTERN_SPACE(line)

\* which branch of the loop takes the line (line = raw_line.rstrip())
LineKindOf(line) ==
  IF Strip(line) = <<>> THEN "blank"
  ELSE IF IsHeader(line) THEN "header"
  ELSE IF IsDateLine(line) THEN "date"
  ELSE IF MessageStart(line) # Nothing THEN "message"
  ELSE "other"

\* ParsedMessage(speaker = group.strip(), text = group.strip(), raw_line);
\* the timestamp, which no step of the loop reads, is left out
ParsedMessage(line, raw_line) ==
  [ speaker |-> Strip(MessageStart(line).speaker),
    text |-> Strip(MessageStart(line).text),
    raw_line |-> raw_line ]

\* variant that puts the closed message in front
_flush_front(messages, current_msg) ==
  IF current_msg # Nothing /\ Strip(current_msg.text) # <<>>
  THEN <<current_msg>> \o messages
  ELSE messages
\* _flush(): result.messages after the call
_flush(messages, current_msg) ==
  IF current_msg # Nothing /\ Strip(current_msg.text) # <<>>
  THEN Append(messages, current_msg)
  ELSE messages

\* pieces of a talk file, each one line with its line break
ContentChunks ==
  { <<10>>,                                             \* empty line
    <<32, 12288, 13, 10>>,                              \* blanks, \r\n
    <<91, 76, 73, 78, 69, 93, 32, 120, 10>>,            \* [LINE] x
    <<50, 48, 50, 52, 47, 49, 47, 53, 40, 27700, 41, 10>>,   \* 2024/1/5(水)
    <<57, 58, 48, 48, 9, 65, 9, 104, 105, 10>>,         \* 9:00 TAB A TAB hi
    <<57, 58, 48, 49, 9, 66, 9, 32, 10>>,               \* 9:01 TAB B TAB blank
    <<57, 58, 48, 50, 32, 66, 32, 32, 121, 111, 10>>,   \* 9:02 B  yo
    <<50, 48, 50, 52, 47, 49, 47, 53, 9, 57, 58, 48, 51, 9, 65, 9, 111, 107, 10>>,
                                                        \* 2024/1/5 TAB 9:03 TAB A TAB ok
    <<109, 111, 114, 101, 32, 10>> }                    \* more, one blank

\* the lines the files of the model are made of
ModelLines == UNION {Range(splitlines(chunk)) : chunk \in ContentChunks}
KindOfModelLine == [raw \in ModelLines |-> LineKindOf(RStrip(raw))]
LineKind(raw) ==
  IF raw \in ModelLines THEN KindOfModelLine[raw] ELSE LineKindOf(RStrip(raw))
StartOfModelLine ==
  [ raw \in {r \in ModelLines : KindOfModelLine[r] = "message"} |->
      ParsedMessage(RStrip(raw), raw) ]
NewMessage(raw) ==
  IF raw \in DOMAIN StartOfModelLine THEN StartOfModelLine[raw]
  ELSE ParsedMessage(RStrip(raw), raw)

nonParseVars ==
  <<dbVars, tabVars, sessionVars, scoreVars, diffVars, fileVars, confVars, frameVars,
    featVars, authVars, storeVars>>

\* the file grows by one piece before it is parsed
ParseFeed(chunk) ==
  /\ parse_pc = "input"
  /\ Len(splitlines(parse_content \o chunk)) <= MaxLines
  /\ parse_content' = parse_content \o chunk
  /\ UNCHANGED <<parse_lines, parse_pos, parse_current, parse_msgs, parse_skipped,
                 parse_pc, nonParseVars>>

\* parse_line_txt(content) up to the loop
ParseCall ==
  /\ parse_pc = "input"
  /\ parse_lines' = splitlines(parse_content)
  /\ parse_pos' = 0
  /\ parse_current' = Nothing
  /\ parse_msgs' = <<>>
  /\ parse_skipped' = 0
  /\ parse_pc' = "loop"
  /\ UNCHANGED <<parse_content, nonParseVars>>

\* one pass of the loop over lines
ParseLine ==
  /\ parse_pc = "loop"
  /\ parse_pos < Len(parse_lines)
  /\ LET raw_line == parse_lines[parse_pos + 1]
         line == RStrip(raw_line)
         kind == LineKind(raw_line)
     IN  /\ parse_pos' = parse_pos + 1
         /\ parse_msgs' =
              IF kind \in {"blank", "date", "message"}
              THEN _flush(parse_msgs, parse_current)
              ELSE parse_msgs
         /\ parse_current' =
              CASE kind \in {"blank", "date"} -> Nothing
                [] kind = "message" -> NewMessage(raw_line)
                [] kind = "other" /\ parse_current # Nothing ->
                     [parse_current EXCEPT !.text = @ \o <<10>> \o line]
                [] OTHER -> parse_current
         /\ parse_skipped' =
              IF kind = "header" \/ (kind = "other" /\ parse_current = Nothing)
              THEN parse_skipped + 1
              ELSE parse_skipped
  /\ UNCHANGED <<parse_content, parse_lines, parse_pc, nonParseVars>>

\* the _flush() after the loop, and the return
ParseReturn ==
  /\ parse_pc = "loop"
  /\ parse_pos = Len(parse_lines)
  /\ parse_msgs' = _flush(parse_msgs, parse_current)
  /\ parse_pc' = "returned"
  /\ UNCHANGED <<parse_content, parse_lines, parse_pos, parse_current, parse_skipped,
                 nonParseVars>>

NextParse ==
  \/ \E chunk \in ContentChunks : ParseFeed(chunk)
  \/ ParseCall
  \/ ParseLine
  \/ ParseReturn

SpecParse == Init /\ [][NextParse]_vars
(***************************************************************************)
(* Properties                                                              *)
(***************************************************************************)
\* the rows tab 2 and tab 3 read, and the distributions built from them
Rows == fetch_my_messages_with_labels(Db, USER_ID)
DistNow == build_distribution(Rows)

RowIds == 1..Len(Rows)
Labelled == {i \in RowIds : Rows[i].style_primary # None /\ Rows[i].think_primary # None}
OwnRows == {i \in RowIds : Rows[i].is_me = 1}
RowsOf(S, cp) == {i \in S : Rows[i].counterparty = cp}

\* the labelled rows behind the entry of key k: those of the counterparty
\* named k, and all of them for the aggregate
GroupOf(k) == IF RowsOf(Labelled, k) # {} THEN RowsOf(Labelled, k) ELSE Labelled

\* v is c / n rounded to 4 decimals, in units of 1/100000
IsShare(v, c, n) ==
  /\ v \in 0..100000
  /\ v % 10 = 0
  /\ 2 * Abs((v \div 10) * n - 10000 * c) <= n

\* d holds the shares of the primary labels among the rows g
IsShareDist(d, g) ==
  /\ \A label \in CommLabels :
       IsShare(d.style_dist[label],
               Cardinality({i \in g : Rows[i].style_primary = label}), Cardinality(g))
  /\ \A label \in ThinkLabels :
       IsShare(d.think_dist[label],
               Cardinality({i \in g : Rows[i].think_primary = label}), Cardinality(g))

SelfMessages(k) ==
  LET own == SelectSeq(Rows, LAMBDA r : r.is_me = 1 /\ (k = "global" \/ r.counterparty = k))
  IN  [i \in 1..Len(own) |-> [text |-> own[i].text]]

EmptyResult ==
  [ keys |-> <<"global">>,
    at |-> [k \in {"global"} |->
              [ style_dist |-> [label \in CommLabels |-> 0],
                think_dist |-> [label \in ThinkLabels |-> 0],
                count |-> 0 ]] ]

\* C2: build_distribution counts only the user's own messages: the rows of
\* other speakers change no count and no distribution, and with no input or
\* without a self-authored row the result is exactly {"global": the empty
\* distribution with count 0 and 13 zeros}.
C2_OwnMessagesOnly ==
  /\ build_distribution(<<>>) = EmptyResult
  /\ DistNow = build_distribution(SelectSeq(Rows, LAMBDA r : r.is_me = 1))
  /\ OwnRows = {} => DistNow = EmptyResult
  /\ Cardinality(CommLabels) + Cardinality(ThinkLabels) = 13

\* a counterparty with a message of the user and one of the other speaker
C2_Witness ==
  \E i \in OwnRows, j \in RowIds \ OwnRows :
    /\ Rows[i].counterparty = Rows[j].counterparty
    /\ Rows[i].text = Rows[j].text
    /\ i \in Labelled
    /\ tab2_dist.at[Rows[i].counterparty].count = 1

RECURSIVE SumOver(_, _)
SumOver(f, S) ==
  IF S = {} THEN 0 ELSE LET x == CHOOSE y \in S : TRUE IN f[x] + SumOver(f, S \ {x})

\* C3: the count of "global" is the number of self-authored rows the
\* distributions are built from, the count of every counterparty is the
\* number of those rows of that counterparty, and the counterparty counts
\* sum to the global count.
C3_Counts ==
  LET own == OwnRows \cap Labelled
      cps == {Rows[i].counterparty : i \in own}
  IN  /\ DistNow.at["global"].count = Cardinality(own)
      /\ \A cp \in cps : cp \in DictKeys(DistNow) /\
                         DistNow.at[cp].count = Cardinality(RowsOf(own, cp))
      /\ SumOver([cp \in cps |-> DistNow.at[cp].count], cps) = Cardinality(own)

\* d is the distribution of the rows g
IsDistOf(d, g) == d.count = Cardinality(g) /\ IsShareDist(d, g)

\* C4: when a counterparty named "global" exists, the entry under "global"
\* is still the aggregate over all self-authored messages and the
\* counterparty keeps a distribution of its own.
C4_ReservedKey ==
  RowsOf(Labelled, "global") # {} =>
    /\ IsDistOf(DistNow.at["global"], Labelled)
    /\ \E k \in DictKeys(DistNow) \ {"global"} :
         IsDistOf(DistNow.at[k], RowsOf(Labelled, "global"))

\* another text with the same noise flag and the same primary labels
TwinText(t) ==
  CASE t = TextLaugh -> TextLaughAlt
    [] t = TextNum -> TextNumAlt
    [] OTHER -> t

\* the corpus with every message text replaced
TwinRows(msgs) == [i \in 1..Len(msgs) |-> [msgs[i] EXCEPT !.text = TwinText(@)]]

PrimaryOf(order, t) == ArgMaxFirst(order, [k \in Range(order) |-> ScoreOf(t)[k]])

TwinIsFaithful ==
  \A t \in ImportTexts, mc \in MinCharsChoices :
    LET p == preprocess_text(t, mc)
        q == preprocess_text(TwinText(t), mc)
    IN  /\ TwinText(t) # t
        /\ p[2] = q[2]
        /\ PrimaryOf(COMM_STYLE_LABELS, p[1]) = PrimaryOf(COMM_STYLE_LABELS, q[1])
        /\ PrimaryOf(THINK_STYLE_LABELS, p[1]) = PrimaryOf(THINK_STYLE_LABELS, q[1])

IsIntMap(f, S) == DOMAIN f = S /\ \A k \in S : f[k] \in Int

\* every leaf of the summary is a number, an axis label, a fixed string, a
\* pseudonym or a counterparty name
SummaryShape(s) ==
  /\ DOMAIN s = {"meta", "global", "by_counterparty"}
  /\ DOMAIN s.meta = {"my_name_hash", "note"}
  /\ s.meta.note = SummaryNote
  /\ s.meta.my_name_hash[1] = "user_" /\ s.meta.my_name_hash[2] \in 0..99998
  /\ DOMAIN s.global = {"style_dist", "think_dist", "count"}
  /\ IsIntMap(s.global.style_dist, CommLabels)
  /\ IsIntMap(s.global.think_dist, ThinkLabels)
  /\ s.global.count \in Nat
  /\ \A room \in DictKeys(s.by_counterparty) :
       LET e == s.by_counterparty.at[room]
       IN  /\ room[1] = "room_" /\ room[2] \in 0..99998
           /\ DOMAIN e = { "display_name", "count", "style_dist", "think_dist",
                           "diff_from_global", "top3_diff" }
           /\ e.display_name \in {Counterparty(f) : f \in FileNames}
           /\ e.count \in Nat
           /\ IsIntMap(e.style_dist, CommLabels)
           /\ IsIntMap(e.think_dist, ThinkLabels)
           /\ DOMAIN e.diff_from_global = {"style_diff", "think_diff"}
           /\ IsIntMap(e.diff_from_global.style_diff, CommLabels)
           /\ IsIntMap(e.diff_from_global.think_diff, ThinkLabels)
           /\ \A i \in 1..Len(e.top3_diff) :
                /\ DOMAIN e.top3_diff[i] = {"label", "kind", "diff"}
                /\ e.top3_diff[i].label \in AxisLabels
                /\ e.top3_diff[i].kind \in {KindComm, KindThink}
                /\ e.top3_diff[i].diff \in Int

\* C5: the summary never exposes raw message text: a corpus with the same
\* labels and counterparty names but other message texts gives the
\* identical summary, and the summary holds nothing but aggregate numbers,
\* axis labels, fixed strings, pseudonyms and counterparty names.
C5_NoRawText ==
  /\ TwinIsFaithful
  /\ summary_json # Nothing =>
       /\ summary_json = ExportSummary(TwinRows(Rows), MyName, str_hash)
       /\ SummaryShape(summary_json)

\* a summary of a corpus with two counterparties and a labelled message
C5_Witness ==
  /\ summary_json # Nothing
  /\ \E i \in Labelled : Rows[i].text = TextNum
  /\ Len(summary_json.by_counterparty.keys) >= 1
  /\ summary_json.global.count >= 2

\* the value of an axis in a part of the entry of a group, 0 when the
\* entry, or the axis in it, is missing
AxisValue(dist_result, name, part, label) ==
  IF name \notin DictKeys(dist_result) THEN 0
  ELSE IF label \notin DOMAIN dist_result.at[name][part] THEN 0
  ELSE dist_result.at[name][part][label]

\* r is x rounded to 4 decimals, both in units of 1/100000
IsRounded4(r, x) == r % 10 = 0 /\ 2 * Abs(r - x) <= 10

\* C6: calc_diff_from_global returns one entry for every non-global group
\* and none for "global"; for each of the 13 axes the diff is the group's
\* value minus the global value rounded to 4 decimals, an axis key missing
\* on either side and a missing "global" entry counting as 0.
C6_DiffFromGlobal ==
  diff_output # Nothing =>
    /\ DictKeys(diff_output) = DictKeys(diff_input) \ {"global"}
    /\ Len(diff_output.keys) = Cardinality(DictKeys(diff_output))
    /\ \A cp \in DictKeys(diff_output) :
         LET d == diff_output.at[cp]
         IN  /\ DOMAIN d = {"style_diff", "think_diff"}
             /\ DOMAIN d.style_diff = CommLabels
             /\ DOMAIN d.think_diff = ThinkLabels
             /\ \A label \in CommLabels :
                  IsRounded4(d.style_diff[label],
                             AxisValue(diff_input, cp, "style_dist", label)
                               - AxisValue(diff_input, "global", "style_dist", label))
             /\ \A label \in ThinkLabels :
                  IsRounded4(d.think_diff[label],
                             AxisValue(diff_input, cp, "think_dist", label)
                               - AxisValue(diff_input, "global", "think_dist", label))

\* a group with missing axis keys against a global entry with 5 decimals
C6_Witness ==
  /\ diff_output # Nothing
  /\ "global" \in DictKeys(diff_input)
  /\ "A" \in DictKeys(diff_output)
  /\ "B" \in DictKeys(diff_output)
  /\ DOMAIN diff_input.at["A"].think_dist = {}
  /\ diff_output.at["A"].style_diff["Lead_Directiveness"] = 0 - 8330
  /\ diff_output.at["A"].think_diff["Abstractness"] = 0 - 12350

\* the pool of top3_diff: communication axes, then thinking axes
PoolLabels(cp_diffs) ==
  SelectSeq(COMM_STYLE_LABELS, LAMBDA l : l \in DOMAIN cp_diffs.style_diff)
    \o SelectSeq(THINK_STYLE_LABELS, LAMBDA l : l \in DOMAIN cp_diffs.think_diff)

PoolValue(cp_diffs, l) ==
  IF l \in DOMAIN cp_diffs.style_diff THEN cp_diffs.style_diff[l] ELSE cp_diffs.think_diff[l]

PositionIn(s, x) == CHOOSE i \in 1..Len(s) : s[i] = x

\* C7: top3_diff pools the communication and thinking diffs of the
\* counterparty and returns at most 3 items by descending absolute diff,
\* ties in input order; every omitted axis has an absolute diff no larger
\* than the smallest returned one; an absent counterparty gives the empty
\* list.
C7_Top3 ==
  top_output # Nothing =>
    IF top_input.counterparty \notin DictKeys(top_input.diffs) THEN top_output = <<>>
    ELSE
      LET cp_diffs == top_input.diffs.at[top_input.counterparty]
          pool == PoolLabels(cp_diffs)
          n == Len(top_output)
      IN  /\ n <= 3
          /\ n = Min2(3, Len(pool))
          /\ \A i \in 1..n :
               /\ top_output[i].label \in Range(pool)
               /\ top_output[i].diff = PoolValue(cp_diffs, top_output[i].label)
          /\ \A i, j \in 1..n :
               i < j =>
                 \/ Abs(top_output[i].diff) > Abs(top_output[j].diff)
                 \/ /\ Abs(top_output[i].diff) = Abs(top_output[j].diff)
                    /\ PositionIn(pool, top_output[i].label)
                         < PositionIn(pool, top_output[j].label)
          /\ \A l \in Range(pool) \ {top_output[i].label : i \in 1..n} :
               \A i \in 1..n : Abs(PoolValue(cp_diffs, l)) <= Abs(top_output[i].diff)

\* three items with a tie among them, and an axis left out that ties with
\* the last one
C7_Witness ==
  /\ top_output # Nothing
  /\ Len(top_output) = 3
  /\ \E i, j \in 1..3 : i < j /\ top_output[i].diff = 0 - top_output[j].diff
  /\ top_output[3].diff # 0
  /\ LET cp_diffs == top_input.diffs.at[top_input.counterparty]
     IN  \E l \in AxisLabels \ {top_output[i].label : i \in 1..3} :
           Abs(PoolValue(cp_diffs, l)) = Abs(top_output[3].diff)

\* C8: calculate_axis_scores on the empty list returns a mapping with
\* exactly the 13 fixed axis keys, all 0.0.
C8_EmptyList ==
  /\ Cardinality(AxisLabels) = 13
  /\ (score_input = <<>> /\ score_output # Nothing) =>
       /\ DOMAIN score_output = AxisLabels
       /\ \A axis \in AxisLabels : score_output[axis].num = 0 /\ score_output[axis].den > 0

\* the empty list has been scored
C8_Witness == score_input = <<>> /\ score_output # Nothing

\* C9: for every message list the result of calculate_axis_scores has
\* exactly the 13 fixed axis labels as keys, and every value is
\* non-negative.
C9_NonNegative ==
  score_output # Nothing =>
    /\ DOMAIN score_output = AxisLabels
    /\ \A axis \in AxisLabels : score_output[axis].num >= 0 /\ score_output[axis].den > 0

\* a list whose question marks outweigh its directive markers
C9_Witness ==
  /\ score_output # Nothing
  /\ score_input = <<[text |-> TextWhy], [text |-> TextOk]>>
  /\ score_output["Lead_Directiveness"].num = 0
  /\ score_output["Active_Listening"].num > 0

\* C10: every entry of build_distribution, empty or not, has a count, a
\* style_dist over exactly the 7 communication labels and a think_dist over
\* exactly the 6 thinking labels.
C10_EntryShape ==
  /\ Cardinality(CommLabels) = 7
  /\ Cardinality(ThinkLabels) = 6
  /\ \A dist_result \in {DistNow, build_distribution(<<>>)} :
       \A k \in DictKeys(dist_result) :
         LET d == dist_result.at[k]
         IN  /\ DOMAIN d = {"style_dist", "think_dist", "count"}
             /\ d.count \in Nat
             /\ DOMAIN d.style_dist = CommLabels
             /\ DOMAIN d.think_dist = ThinkLabels

\* the aggregate and two counterparties
C10_Witness ==
  /\ tab2_dist = DistNow
  /\ Len(DistNow.keys) = 3
  /\ \A k \in DictKeys(DistNow) : DistNow.at[k].count > 0


\* C11: every distribution returned by build_distribution, the "global" one
\* and the empty one included, carries a confidence value between 0 and 1.
C11_Confidence ==
  \A k \in DictKeys(DistNow) :
    /\ "confidence" \in DOMAIN DistNow.at[k]
    /\ DistNow.at[k].confidence \in 0..100

\* twice the exact average of the two capped ramps, in 1/10000
TwiceAverage(msg_count, char_count) ==
  (IF msg_count >= 200 THEN 10000 ELSE 50 * msg_count)
    + (IF char_count >= 5000 THEN 10000 ELSE 2 * char_count)

\* C12: for counts that are not negative, calculate_confidence returns a
\* value between 0.0 and 1.0 that is the average of min(1, msg_count/200) and
\* min(1, char_count/5000) rounded to 2 decimals, and no larger count in
\* either argument gives a smaller value.  (Larger counts with the same
\* average are counts above a cap, for which the code computes the same
\* floats and so the same value.)
C12_ConfidenceBounds ==
  conf_output # Nothing =>
    /\ conf_output.hundredths \in 0..100
    /\ Abs(200 * conf_output.hundredths
             - TwiceAverage(conf_input.msg_count, conf_input.char_count)) <= 100
    /\ \A m \in MsgCounts, c \in CharCounts :
         ( /\ m >= conf_input.msg_count
           /\ c >= conf_input.char_count
           /\ TwiceAverage(m, c) > TwiceAverage(conf_input.msg_count, conf_input.char_count) )
         => \A v \in calculate_confidence(m, c) : v >= conf_output.hundredths

\* 199 messages and 4999 characters: neither ramp is capped, the average
\* 0.9974 rounds up to 1.0
C12_Witness ==
  /\ conf_input = [msg_count |-> 199, char_count |-> 4999]
  /\ conf_output = [hundredths |-> 100]

\* C13: build_summary_json is reproducible: for the same distributions,
\* diffs and display name, the summary on display equals the one downloaded
\* earlier, key for key and value for value, also when the program was
\* started again in between.
C13_Reproducible ==
  (summary_json # Nothing /\ downloaded # Nothing /\ downloaded.dist = DistNow) =>
    summary_json = downloaded.json

CountOf(messages, k) ==
  SumSeq([i \in 1..Len(messages) |->
            IF k \in DOMAIN Features(messages[i].text)
            THEN Features(messages[i].text)[k] ELSE 0])

\* C16: a message set without abstract markers, concrete markers and
\* numeric tokens has Abstractness exactly 0.1; every other one has
\* (abstract - concrete) / message_count + 0.3 clamped to [0, 1], where
\* concrete is the concrete markers plus 0.2 times number_count.
C16_Abstractness ==
  (score_output # Nothing /\ score_input # <<>>) =>
    LET n == Len(score_input)
        abstract == CountOf(score_input, "marker_abstract")
        markers == CountOf(score_input, "marker_concrete")
        numbers == CountOf(score_input, "number_count")
        \* (abstract - concrete) / n + 0.3, in units of 1 / (10 n)
        raw == 10 * (abstract - markers) - 2 * numbers + 3 * n
        clamped == IF raw < 0 THEN 0 ELSE IF raw > 10 * n THEN 10 * n ELSE raw
    IN  IF abstract = 0 /\ markers = 0 /\ numbers = 0
        THEN RatEq(score_output.Abstractness, Rat(1, 10))
        ELSE RatEq(score_output.Abstractness, Rat(clamped, 10 * n))

\* three messages with two numeric tokens between them: 0.3 - 0.4 / 3
C16_Witness ==
  /\ score_output # Nothing
  /\ Len(score_input) = 3
  /\ CountOf(score_input, "number_count") = 2
  /\ RatEq(score_output.Abstractness, Rat(1, 6))

\* the characters of a message list
CharsOf(messages) == SumSeq([i \in 1..Len(messages) |-> Len(messages[i].text)])

\* list a averages fewer than 100 characters per message and fewer than b
ShorterOnAverage(a, b) ==
  /\ CharsOf(a) < 100 * Len(a)
  /\ CharsOf(a) * Len(b) < CharsOf(b) * Len(a)

InUnit(r) == r.num >= 0 /\ r.num <= r.den

\* C17: of two message groups without digression markers, the one whose
\* average length is below 100 characters and below the other's has the
\* strictly higher Brevity; Brevity is never negative and never above 1.
C17_Brevity ==
  (score_output # Nothing /\ score_kept # Nothing /\ score_input # <<>>) =>
    /\ InUnit(score_output.Brevity)
    /\ InUnit(score_kept.scores.Brevity)
    /\ ( /\ CountOf(score_input, "marker_digression") = 0
         /\ CountOf(score_kept.messages, "marker_digression") = 0 )
       => /\ ShorterOnAverage(score_input, score_kept.messages) =>
               RatLess(score_kept.scores.Brevity, score_output.Brevity)
          /\ ShorterOnAverage(score_kept.messages, score_input) =>
               RatLess(score_output.Brevity, score_kept.scores.Brevity)

\* one message of 150 characters against two short ones
C17_Witness ==
  /\ score_output # Nothing
  /\ score_kept # Nothing
  /\ score_kept.messages = <<[text |-> TextLong]>>
  /\ score_kept.scores.Brevity.num = 0
  /\ Len(score_input) = 2
  /\ CharsOf(score_input) = 11
  /\ RatEq(score_output.Brevity, Rat(189, 200))

\* "comm" and "think" as code points
CommKind == <<99, 111, 109, 109>>
ThinkKind == <<116, 104, 105, 110, 107>>

\* C18: every item returned by top3_diff has the fields axis, kind and diff,
\* with kind "comm" for a communication axis and "think" for a thinking axis.
C18_ItemFields ==
  top_output # Nothing =>
    \A i \in 1..Len(top_output) :
      /\ DOMAIN top_output[i] = {"axis", "kind", "diff"}
      /\ top_output[i].kind =
           (IF top_output[i].axis \in CommLabels THEN CommKind ELSE ThinkKind)

\* C19: for every text, extract_features gives at most 3 for each of
\* question_mark, exclaim, emoji_count and laugh, so no scored message
\* contributes more than 3 per punctuation feature.
C19_PunctuationCap ==
  score_output # Nothing =>
    \A i \in 1..Len(score_input) :
      \A k \in {"question_mark", "exclaim", "emoji_count", "laugh"} :
        extract_features(score_input[i].text)[k] <= 3

\* C20: Lead_Directiveness of a non-empty group is max(0, (directive +
\* assertive + 1.5 proposal - 0.3 question_mark) / message_count): it is
\* never negative, and one more question mark never raises it.
C20_LeadDirectiveness ==
  (score_output # Nothing /\ score_input # <<>>) =>
    LET n == Len(score_input)
        raw == 100 * (CountOf(score_input, "marker_directive")
                        + CountOf(score_input, "marker_assertive"))
                 + 150 * CountOf(score_input, "marker_proposal")
                 - 30 * CountOf(score_input, "question_mark")
        more == axis_scores([features_sum(score_input) EXCEPT !["question_mark"] = @ + 1],
                            n, CharsOf(score_input))
    IN  /\ RatEq(score_output.Lead_Directiveness, Rat(IF raw > 0 THEN raw ELSE 0, 100 * n))
        /\ score_output.Lead_Directiveness.num >= 0
        /\ ~RatLess(score_output.Lead_Directiveness, more.Lead_Directiveness)

\* two messages with directive and proposal markers and three question
\* marks: (1 + 1.5 - 0.9) / 2
C20_Witness ==
  /\ score_output # Nothing
  /\ score_input = <<[text |-> TextAsk], [text |-> TextWhy]>>
  /\ RatEq(score_output.Lead_Directiveness, Rat(4, 5))

\* C21: for each marker category, extract_features returns the number of
\* distinct keywords of the category that occur at least once in the
\* lower-cased text; a keyword occurring several times counts once, and the
\* count never exceeds the number of keywords of the category.
C21_MarkerPresence ==
  feat_output # Nothing =>
    \A c \in Range(MarkerCategories) :
      /\ feat_output.features[MarkerKey[c]] =
           Cardinality({w \in Range(MARKERS[c]) : Contains(w, Lower(feat_text))})
      /\ feat_output.features[MarkerKey[c]] <= Len(MARKERS[c])

\* naze twice, then mazu: the deep-question keyword counts once
C21_Witness ==
  /\ feat_output # Nothing
  /\ feat_text = <<12394, 12380, 12394, 12380, 12414, 12378>>
  /\ feat_output.features["marker_question_deep"] = 1
  /\ feat_output.features["marker_proposal"] = 1

\* the latest call was a verify_passcode that reached the comparison with a
\* wrong passcode
LastWasWrong ==
  /\ auth_last # Nothing
  /\ auth_last.call = "verify_passcode"
  /\ ~returns_early(auth_last.row, auth_last.now)
  /\ ~auth_last.result.success

\* C22: for every user, failed_count is the number of wrong verify_passcode
\* attempts compared since the last successful verify_passcode or
\* set_passcode; a wrong attempt sets locked_until exactly when the
\* resulting failed_count is at least max_attempts; the expiry of a lock
\* does not reset failed_count, so the first wrong attempt after an expired
\* lock locks again.
C22_FailedCount ==
  /\ \A u \in DOMAIN auth_users : auth_users[u].failed_count = auth_wrong[u]
  /\ LastWasWrong =>
       LET before == auth_last.row
           after == auth_users[auth_last.user_id]
           until == [minute |-> auth_last.now + lock_duration_minutes]
       IN  /\ after.failed_count = before.failed_count + 1
           /\ IF after.failed_count >= max_attempts
              THEN after.locked_until = until /\ auth_last.result.locked_until = until
              ELSE /\ after.locked_until = before.locked_until
                   /\ auth_last.result.locked_until = Nothing
           /\ before.locked_until # Nothing =>
                /\ before.failed_count >= max_attempts
                /\ after.locked_until = until

\* a wrong attempt after a lock has run out: the sixth failure locks again
C22_Witness ==
  /\ LastWasWrong
  /\ auth_last.row.locked_until # Nothing
  /\ auth_last.row.failed_count = max_attempts
  /\ auth_users[auth_last.user_id].failed_count = max_attempts + 1
  /\ InFuture(auth_users[auth_last.user_id].locked_until, auth_now)

\* C23: while a user's locked_until lies in the future, every
\* verify_passcode call returns success = false, also for the correct
\* passcode, and leaves failed_count, locked_until and the stored hash
\* unchanged.
C23_LockedCalls ==
  ( /\ auth_last # Nothing
    /\ auth_last.call = "verify_passcode"
    /\ auth_last.row # Nothing
    /\ InFuture(auth_last.row.locked_until, auth_last.now) )
  => /\ ~auth_last.result.success
     /\ auth_users[auth_last.user_id].failed_count = auth_last.row.failed_count
     /\ auth_users[auth_last.user_id].locked_until = auth_last.row.locked_until
     /\ auth_users[auth_last.user_id].pass_hash = auth_last.row.pass_hash

\* the correct passcode tried during the lock
C23_Witness ==
  /\ auth_last # Nothing
  /\ auth_last.call = "verify_passcode"
  /\ auth_last.row # Nothing
  /\ InFuture(auth_last.row.locked_until, auth_last.now)
  /\ _hash_passcode(auth_last.passcode, auth_last.row.pass_salt) = auth_last.row.pass_hash
  /\ ~auth_last.result.success

\* C24: when verify_passcode calls with wrong passcodes for one user
\* interleave, every one of them is counted: failed_count is not below the
\* number of wrong attempts compared since the last success, and no user
\* gets max_attempts wrong attempts compared without a lock being set.
C24_NoLostAttempt ==
  \A u \in DOMAIN auth_users :
    /\ auth_users[u].failed_count >= auth_wrong[u]
    /\ auth_wrong[u] >= max_attempts => auth_users[u].locked_until # Nothing

\* what the latest script run showed agrees with the gate: the pages only to
\* a session authenticated for that uid, a form only while the uid was not
\* locked
GateShows ==
  auth_page # Nothing =>
    /\ auth_page.view = "pages" =>
         auth_session[auth_page.session] = [uid |-> auth_page.uid]
    /\ auth_page.view \in {"set_form", "unlock_form"} => ~auth_page.locked

\* a step that changes a session's authed_uid to a uid is a script run of
\* that session for that uid in which set_passcode was called for a uid
\* without passcode or verify_passcode returned success
GateGrants ==
  \A s \in Sessions :
    (auth_session'[s] # auth_session[s] /\ auth_session'[s] # Nothing) =>
      /\ auth_page'.session = s
      /\ auth_session'[s] = [uid |-> auth_page'.uid]
      /\ \/ auth_page'.call = "set_passcode" /\ ~auth_page'.has_pass
         \/ auth_page'.call = "verify_passcode" /\ auth_page'.success

\* C25: in one browser session the pages behind the gate are rendered for a
\* uid only if the session's authed_uid equals that uid; authed_uid is set
\* to a uid only right after set_passcode on a uid that had no passcode or
\* after a verify_passcode that returned success; while the uid is locked an
\* unauthenticated session reaches neither form.
C25_Gate == [](GateShows) /\ [][GateGrants]_vars

\* session s1 set the passcode of abcdef12 and is authenticated; session s2
\* failed until the lock and now gets the lock notice instead of a form
C25_Witness ==
  /\ auth_page # Nothing
  /\ auth_page.session = "s2"
  /\ auth_page.uid = UidA
  /\ auth_page.view = "locked"
  /\ auth_session["s1"] = [uid |-> UidA]
  /\ auth_session["s2"] = Nothing

\* the rows stored for (user_id, source), in id order, as [speaker, text]
StoredFor(user_id, source) ==
  LET ids == SortedSeq(SourceIds(Db, user_id, source))
  IN  [ i \in 1..Len(ids) |->
          [speaker |-> db_messages[ids[i]].speaker, text |-> db_messages[ids[i]].text] ]

\* a row outside the pair written by the latest write
OutsideWrite(row) ==
  row.user_id # store_prev.user_id \/ row.source # store_prev.source

\* C26: after any sequence of imports (upsert_messages_batch, then
\* upsert_labels_batch on the ids returned) and delete_source calls, no labels
\* row refers to a message id missing from messages; the messages stored for
\* a (user_id, source) pair are exactly the rows of the latest upsert for the
\* pair; and a write leaves the rows and labels of other users and sources
\* as they were.
C26_Store ==
  /\ DOMAIN db_labels \subseteq DOMAIN db_messages
  /\ \A u \in StoreUsers, f \in StoreFiles :
       StoredFor(u, f) = IF <<u, f>> \in DOMAIN store_last THEN store_last[<<u, f>>] ELSE <<>>
  /\ store_prev # Nothing =>
       /\ \A id \in DOMAIN store_prev.db.messages :
            OutsideWrite(store_prev.db.messages[id]) =>
              /\ id \in DOMAIN db_messages
              /\ db_messages[id] = store_prev.db.messages[id]
              /\ id \in DOMAIN db_labels <=> id \in DOMAIN store_prev.db.labels
              /\ id \in DOMAIN db_labels => db_labels[id] = store_prev.db.labels[id]
       /\ \A id \in DOMAIN db_messages :
            OutsideWrite(db_messages[id]) => id \in DOMAIN store_prev.db.messages

\* user u1 imported A.txt, then user u2 imported a file of the same name: u1
\* keeps its row and the label of the row
C26_Witness ==
  /\ store_prev # Nothing
  /\ store_prev.user_id = "u2"
  /\ store_prev.source = "A.txt"
  /\ SourceIds(Db, USER_ID, "A.txt") = {1}
  /\ 1 \in DOMAIN db_labels
  /\ SourceIds(Db, "u2", "A.txt") = {2}

\* C27: build_summary_json keeps every counterparty: by_counterparty has
\* exactly one entry per non-global key of the distributions, each with that
\* counterparty's display_name, count and distributions, so two
\* counterparties never share or overwrite one room key.
C27_EveryCounterparty ==
  (summary_json # Nothing /\ Rows # <<>>) =>
    LET rooms == summary_json.by_counterparty
        cps == DictKeys(DistNow) \ {"global"}
    IN  /\ Cardinality(DictKeys(rooms)) = Cardinality(cps)
        /\ \A cp \in cps :
             \E k \in DictKeys(rooms) :
               /\ rooms.at[k].display_name = cp
               /\ rooms.at[k].count = DistNow.at[cp].count
               /\ rooms.at[k].style_dist = DistNow.at[cp].style_dist
               /\ rooms.at[k].think_dist = DistNow.at[cp].think_dist

\* C28: for every non-empty group of build_distribution, each style_dist
\* (think_dist) value is the share, to 4 decimals, of the group's rows whose
\* style_primary (think_primary) is that label, hence between 0 and 1; every
\* stored primary label is one of the 13 labels, so the per-label row counts
\* of the 7 communication labels sum to the group's count, and likewise
\* those of the 6 thinking labels.
C28_LabelCounts ==
  /\ \A id \in DOMAIN db_labels :
       /\ db_labels[id].style_primary \in CommLabels
       /\ db_labels[id].think_primary \in ThinkLabels
  /\ \A k \in DictKeys(DistNow) :
       GroupOf(k) # {} =>
         LET g == GroupOf(k)
             d == DistNow.at[k]
             style_rows == [label \in CommLabels |->
                              Cardinality({i \in g : Rows[i].style_primary = label})]
             think_rows == [label \in ThinkLabels |->
                              Cardinality({i \in g : Rows[i].think_primary = label})]
         IN  /\ d.count = Cardinality(g)
             /\ SumOver(style_rows, CommLabels) = d.count
             /\ SumOver(think_rows, ThinkLabels) = d.count
             /\ \A label \in CommLabels : IsShare(d.style_dist[label], style_rows[label], d.count)
             /\ \A label \in ThinkLabels : IsShare(d.think_dist[label], think_rows[label], d.count)

\* a counterparty whose two labelled rows have the same primary labels
C28_Witness ==
  \E k \in DictKeys(DistNow) \ {"global"} :
    /\ DistNow.at[k].count = 2
    /\ \E label \in CommLabels : DistNow.at[k].style_dist[label] = 100000
    /\ \E label \in ThinkLabels : DistNow.at[k].think_dist[label] = 100000

\* C29: for every message list, Abstractness is at most 0.3: no marker
\* category is named abstract or concrete, so the value is 0.1 when no
\* message contains a digit run and max(0, 0.3 - 0.2 x number_count /
\* message_count) otherwise.
C29_AbstractnessCap ==
  /\ "abstract" \notin Range(MarkerCategories)
  /\ "concrete" \notin Range(MarkerCategories)
  /\ (score_output # Nothing /\ score_input # <<>>) =>
       LET n == Len(score_input)
           numbers == CountOf(score_input, "number_count")
           \* 0.3 - 0.2 x numbers / n, in units of 1 / (10 n)
           raw == 3 * n - 2 * numbers
       IN  /\ ~RatLess(Rat(3, 10), score_output.Abstractness)
           /\ IF numbers = 0
              THEN RatEq(score_output.Abstractness, Rat(1, 10))
              ELSE RatEq(score_output.Abstractness, Rat(IF raw > 0 THEN raw ELSE 0, 10 * n))

\* one message with two digit runs: 0.3 - 0.4 is floored at 0
C29_Witness ==
  /\ score_output # Nothing
  /\ score_input = <<[text |-> TextNum]>>
  /\ score_output.Abstractness.num = 0

\* result.messages after a message is closed: it is emitted only if its
\* text is not blank
Emitted(messages, closed) ==
  IF closed # Nothing /\ \E i \in 1..Len(closed.text) : ~IsSpace(closed.text[i])
  THEN messages \o <<closed>>
  ELSE messages

\* what one pass of the loop over a line does
LineStep ==
  LET raw == parse_lines[parse_pos + 1]
      kind == LineKind(raw)
  IN  /\ kind = "other" =>
           IF parse_current # Nothing
           THEN /\ parse_current' =
                     [parse_current EXCEPT !.text = parse_current.text \o <<10>> \o RStrip(raw)]
                /\ parse_skipped' = parse_skipped
                /\ parse_msgs' = parse_msgs
           ELSE /\ parse_current' = Nothing
                /\ parse_skipped' = parse_skipped + 1
                /\ parse_msgs' = parse_msgs
      /\ kind \in {"blank", "date"} =>
           /\ parse_current' = Nothing
           /\ parse_msgs' = Emitted(parse_msgs, parse_current)
           /\ parse_skipped' = parse_skipped
      /\ kind = "message" =>
           /\ parse_current' # Nothing
           /\ parse_current'.raw_line = raw
           /\ parse_msgs' = Emitted(parse_msgs, parse_current)
           /\ parse_skipped' = parse_skipped

\* the lines are read in order, one per pass, and the return closes the
\* open message
InOrder ==
  /\ parse_pos' # parse_pos => parse_pos' = parse_pos + 1 /\ LineStep
  /\ (parse_pc = "loop" /\ parse_pc' = "returned") =>
       /\ parse_pos = Len(parse_lines)
       /\ parse_msgs' = Emitted(parse_msgs, parse_current)

\* the messages are lines of the file, in file order
FileOrder ==
  \E at \in [1..Len(parse_msgs) -> 1..parse_pos] :
    /\ \A i \in 1..Len(parse_msgs) : parse_lines[at[i]] = parse_msgs[i].raw_line
    /\ \A i, j \in 1..Len(parse_msgs) : i < j => at[i] < at[j]

ParseResultOk ==
  /\ Len(parse_msgs) <= Len(parse_lines)
  /\ FileOrder
  /\ \A i \in 1..Len(parse_msgs) : Strip(parse_msgs[i].text) # <<>>

\* C30: parse_line_txt reads the lines in order with one open message: a line
\* that is not blank, header, date or message-start is appended to the open
\* message if there is one and counted in skipped_lines otherwise; a blank
\* line, a date line or the next message-start closes the open message; a
\* closed message is emitted only if its text is not blank; the messages
\* are emitted in file order, never more than total_lines of them.
C30_Parser == [](ParseResultOk) /\ [][InOrder]_vars

\* a file of three lines: a line before any message (skipped), a message,
\* and a line appended to it
C30_Witness ==
  /\ parse_pc = "returned"
  /\ Len(parse_lines) = 3
  /\ parse_skipped = 1
  /\ Len(parse_msgs) = 1
  /\ parse_msgs[1].raw_line = parse_lines[2]
  /\ parse_msgs[1].text = <<104, 105, 10>> \o RStrip(parse_lines[3])
====
